---- MODULE Spec2Model ----
(***************************************************************************)
(* A model of phidata's Redis app (src/phidata/app/redis/redis.py): the    *)
(* RedisArgs record, the two optional YAML files it reads, the Docker and  *)
(* Kubernetes resource-group builders, the resource-group registries and   *)
(* the connection-URL getters.  Further down: CreatePersistentVolume       *)
(* (persistent_volume.py, specification PvSpec), File (file.py,            *)
(* specification FileSpec) and the two constructors (NewSpec).  Each       *)
(* specification holds the variables of the other programs fixed.          *)
(*                                                                         *)
(* Encoding.  Python's Optional[T] is a sequence of length 0 (None) or 1.  *)
(* A str is a sequence of tokens (Text), so that formatting and            *)
(* concatenation are computed and the separators of a URL can be counted.  *)
(* A dict is a function whose domain is its key set.                       *)
(***************************************************************************)
EXTENDS Integers, Sequences, FiniteSets, TLC

VARIABLES args, fs, docker_resource_groups, k8s_resource_groups, ret, constructed_args,
          create_pv, file, disk, kwargs, exc, before

vars == <<args, fs, docker_resource_groups, k8s_resource_groups, ret, constructed_args,
          create_pv, file, disk, kwargs, exc, before>>

(***************************************************************************)
(* Python values                                                           *)
(***************************************************************************)
None == <<>>

Some(v) == <<v>>

IsNone(o) == Len(o) = 0

Val(o) == o[1]

EmptyDict == [k \in {} |-> <<>>]

\* dict.update(u): keys of u overwrite same-named keys of d
DictUpdate(d, u) == [k \in (DOMAIN d) \cup (DOMAIN u) |-> IF k \in DOMAIN u THEN u[k] ELSE d[k]]

\* d[key] = value on a dict
DictSet(d, key, value) == [k \in (DOMAIN d) \cup {key} |-> IF k = key THEN value ELSE d[k]]

\* truth value of an Optional[str]: None and "" are falsy
StrTruthy(o) == ~IsNone(o) /\ Len(Val(o)) > 0

\* truth value of an Optional object without __bool__/__len__: only None is falsy
ObjTruthy(o) == ~IsNone(o)

DigitChars == <<"0", "1", "2", "3", "4", "5", "6", "7", "8", "9">>

RECURSIVE IntToStr(_)
\* str(n) / f"{n}" of a non-negative int: its decimal digits
IntToStr(n) == IF n < 10 THEN <<DigitChars[n + 1]>> ELSE IntToStr(n \div 10) \o <<DigitChars[(n % 10) + 1]>>

\* f"{x}" of an Optional[str]: the text, or the word None
FmtOptStr(o) == IF IsNone(o) THEN <<"None">> ELSE Val(o)

\* str(Path): the parts joined by the separator
PathStr(p) == IF Len(p) = 0 THEN <<".">> ELSE [i \in 1..(2 * Len(p)) |-> IF i % 2 = 1 THEN "/" ELSE p[i \div 2]]

(***************************************************************************)
(* Enumerations and program constants                                      *)
(***************************************************************************)
RedisVolumeType == {"EMPTY_DIR", "HOST_PATH", "PERSISTENT_VOLUME", "AWS_EBS"}

ServiceType == {"CLUSTER_IP", "NODE_PORT", "LOAD_BALANCER"}

MinNodePort == 30000

MaxNodePort == 32767

DefaultRedisPort == 6379

REDIS_PASSWORD == "REDIS_PASSWORD"

REDIS_SCHEMA == "REDIS_SCHEMA"

TopologyRegionKey == "topology.kubernetes.io/region"

TopologyZoneKey == "topology.kubernetes.io/zone"

EnvFilePath == "env.yaml"

SecretsFilePath == "secrets.yaml"

(***************************************************************************)
(* RedisArgs with the defaults of the class.  db_password and db_schema    *)
(* are the fields of the base class DbAppArgs that get_db_password and     *)
(* get_db_schema read; Redis.__init__ passes no value for them.            *)
(***************************************************************************)
DefaultArgs ==
    [ name |-> <<"redis">>, version |-> <<"1">>, enabled |-> TRUE,
      image_name |-> <<"redis">>, image_tag |-> <<"6.2.6">>,
      entrypoint |-> None, command |-> None,
      redis_password |-> None, redis_schema |-> None, redis_driver |-> <<"redis">>,
      db_password |-> None, db_schema |-> None,
      create_volume |-> TRUE, volume_type |-> "EMPTY_DIR", volume_name |-> None,
      volume_container_path |-> <<"/", "data">>, volume_host_path |-> None,
      ebs_volume |-> None, ebs_volume_region |-> None, ebs_volume_id |-> None,
      ebs_volume_az |-> None, schedule_pods_in_ebs_topology |-> TRUE,
      container_name |-> None, image_pull_policy |-> "IF_NOT_PRESENT",
      container_port |-> DefaultRedisPort, container_port_name |-> <<"redis">>,
      container_host_port |-> DefaultRedisPort,
      container_detach |-> TRUE, container_auto_remove |-> TRUE, container_remove |-> TRUE,
      env |-> None, env_file |-> None, config_map_name |-> None,
      secret_name |-> None, secrets_file |-> None,
      deploy_name |-> None, pod_name |-> None, replicas |-> 1,
      pod_node_selector |-> None, restart_policy |-> "ALWAYS",
      termination_grace_period_seconds |-> None,
      service_name |-> None, service_type |-> None, service_port |-> DefaultRedisPort,
      node_port |-> None, target_port |-> None,
      use_cache |-> TRUE, use_verbose_logs |-> FALSE ]

(***************************************************************************)
(* Default resource names: "<prefix>-<app name>", one prefix per kind      *)
(***************************************************************************)
DefaultName(prefix, app_name) == <<prefix, "-">> \o app_name

get_default_container_name(app_name) == DefaultName("container", app_name)

get_default_configmap_name(app_name) == DefaultName("cm", app_name)

get_default_secret_name(app_name) == DefaultName("secret", app_name)

get_default_service_name(app_name) == DefaultName("svc", app_name)

get_default_volume_name(app_name) == DefaultName("volume", app_name)

get_default_deploy_name(app_name) == DefaultName("deploy", app_name)

get_default_pod_name(app_name) == DefaultName("pod", app_name)

\* get_image_str(name, tag): "name:tag"
get_image_str(image_name, image_tag) == image_name \o <<":">> \o image_tag

\* "x or y" on an Optional[str] name
OrDefault(o, dflt) == IF StrTruthy(o) THEN Val(o) ELSE dflt

\* faulty variant: an explicit container_name is not looked at
get_container_name_ExplicitIgnored(a) == get_default_container_name(a.name)

get_container_name(a) == OrDefault(a.container_name, get_default_container_name(a.name))

get_service_name(a) == OrDefault(a.service_name, get_default_service_name(a.name))

get_service_port(a) == a.service_port

(***************************************************************************)
(* The local file system: what a path is and what yaml.safe_load returns   *)
(* for its text                                                            *)
(***************************************************************************)
YamlNone == [kind |-> "none", map |-> EmptyDict]

YamlScalar == [kind |-> "scalar", map |-> EmptyDict]

YamlMap(d) == [kind |-> "map", map |-> d]

MissingFile == [exists |-> FALSE, is_file |-> FALSE, yaml |-> YamlNone]

Directory == [exists |-> TRUE, is_file |-> FALSE, yaml |-> YamlNone]

RegularFile(y) == [exists |-> TRUE, is_file |-> TRUE, yaml |-> y]

\* faulty variant: a file that is not a mapping is dropped without an error
ReadYamlDict_SilentOnNonMapping(path, f, error) ==
    IF ~IsNone(path) /\ f[Val(path)].exists /\ f[Val(path)].is_file
    THEN IF f[Val(path)].yaml.kind = "map"
         THEN [val |-> Some(f[Val(path)].yaml.map), log |-> <<>>]
         ELSE [val |-> None, log |-> <<>>]
    ELSE [val |-> None, log |-> <<>>]

\* the common body of get_env_data_from_file and get_secret_data_from_file
ReadYamlDict(path, f, error) ==
    IF ~IsNone(path) /\ f[Val(path)].exists /\ f[Val(path)].is_file
    THEN IF f[Val(path)].yaml.kind = "map"
         THEN [val |-> Some(f[Val(path)].yaml.map), log |-> <<>>]
         ELSE [val |-> None, log |-> <<error>>]
    ELSE [val |-> None, log |-> <<>>]

get_env_data_from_file(a, f) == ReadYamlDict(a.env_file, f, "Invalid env_file")

get_secret_data_from_file(a, f) == ReadYamlDict(a.secrets_file, f, "Invalid secrets_file")

(***************************************************************************)
(* Password, schema and connection URLs.  Every function returns the       *)
(* record [val, log]: its value and the errors it printed.                 *)
(***************************************************************************)
\* the body shared by get_db_password and get_db_schema: the explicit DbAppArgs
\* field first, the secrets file only when that field is None
DbSecretLookup(explicit, key, a, f) ==
    IF IsNone(explicit) /\ ~IsNone(a.secrets_file)
    THEN LET secret_data_from_file == get_secret_data_from_file(a, f)
         IN  IF ~IsNone(secret_data_from_file.val)
             THEN [val |-> IF key \in DOMAIN Val(secret_data_from_file.val)
                           THEN Some(Val(secret_data_from_file.val)[key])
                           ELSE explicit,
                   log |-> secret_data_from_file.log]
             ELSE [val |-> explicit, log |-> secret_data_from_file.log]
    ELSE [val |-> explicit, log |-> <<>>]

get_db_password(a, f) == DbSecretLookup(a.db_password, REDIS_PASSWORD, a, f)

get_db_schema(a, f) == DbSecretLookup(a.db_schema, REDIS_SCHEMA, a, f)

get_db_driver(a) == a.redis_driver

get_db_host_local(a) == <<"localhost">>

get_db_port_local(a) == a.container_host_port

get_db_host_docker(a) == get_container_name(a)

get_db_port_docker(a) == a.container_port

get_db_host_k8s(a) == get_service_name(a)

get_db_port_k8s(a) == get_service_port(a)

\* password_str = f"{password}@" if password else ""
PasswordStr(password) == IF StrTruthy(password) THEN Val(password) \o <<"@">> ELSE <<>>

\* faulty variant: the separator is written only when there is a password
FormatUrl_Normalized(driver, password_str, host, port, schema) ==
    driver \o <<":", "/", "/">> \o password_str \o host \o <<":">> \o IntToStr(port) \o <<"/">> \o FmtOptStr(schema)

\* f"{driver}://{password_str}@{host}:{port}/{schema}"
FormatUrl(driver, password_str, host, port, schema) ==
    driver \o <<":", "/", "/">> \o password_str \o <<"@">> \o host \o <<":">> \o IntToStr(port) \o <<"/">> \o FmtOptStr(schema)

DbConnectionUrl(a, f, host, port) ==
    LET password == get_db_password(a, f)
        schema == get_db_schema(a, f)
    IN  [val |-> FormatUrl(get_db_driver(a), PasswordStr(password.val), host, port, schema.val),
         log |-> password.log \o schema.log]

get_db_connection_url_local(a, f) == DbConnectionUrl(a, f, get_db_host_local(a), get_db_port_local(a))

get_db_connection_url_docker(a, f) == DbConnectionUrl(a, f, get_db_host_docker(a), get_db_port_docker(a))

get_db_connection_url_k8s(a, f) == DbConnectionUrl(a, f, get_db_host_k8s(a), get_db_port_k8s(a))

(***************************************************************************)
(* Docker resources                                                        *)
(***************************************************************************)
\* faulty variant: the secrets file is applied after the inline env
DockerContainerEnv_SecretsLast(a, env_data_from_file, secret_data_from_file) ==
    LET e1 == IF ~IsNone(env_data_from_file) THEN DictUpdate(EmptyDict, Val(env_data_from_file)) ELSE EmptyDict
        e2 == IF ~IsNone(a.env) THEN DictUpdate(e1, Val(a.env)) ELSE e1
    IN  IF ~IsNone(secret_data_from_file) THEN DictUpdate(e2, Val(secret_data_from_file)) ELSE e2

\* lines 417-432: env file, then secrets file, then the inline env
DockerContainerEnv(a, env_data_from_file, secret_data_from_file) ==
    LET e1 == IF ~IsNone(env_data_from_file) THEN DictUpdate(EmptyDict, Val(env_data_from_file)) ELSE EmptyDict
        e2 == IF ~IsNone(secret_data_from_file) THEN DictUpdate(e1, Val(secret_data_from_file)) ELSE e1
    IN  IF ~IsNone(a.env) THEN DictUpdate(e2, Val(a.env)) ELSE e2

VolumeBinding(a) == [bind |-> a.volume_container_path, mode |-> "rw"]

\* faulty variant: a missing volume_host_path leaves the container without a volume
DockerContainerVolumes_HostPathOptional(a) ==
    IF a.create_volume
    THEN IF a.volume_type = "EMPTY_DIR"
         THEN [ok |-> TRUE,
               volumes |-> DictSet(EmptyDict, OrDefault(a.volume_name, get_default_volume_name(a.name)), VolumeBinding(a)),
               log |-> <<>>]
         ELSE IF a.volume_type = "HOST_PATH"
              THEN IF ~IsNone(a.volume_host_path)
                   THEN [ok |-> TRUE,
                         volumes |-> DictSet(EmptyDict, PathStr(Val(a.volume_host_path)), VolumeBinding(a)),
                         log |-> <<>>]
                   ELSE [ok |-> TRUE, volumes |-> EmptyDict, log |-> <<"Redis: volume_host_path not provided">>]
              ELSE [ok |-> FALSE, volumes |-> EmptyDict, log |-> <<"volume_type not supported">>]
    ELSE [ok |-> TRUE, volumes |-> EmptyDict, log |-> <<>>]

\* faulty variant: a volume type Docker does not handle is skipped, the container is built without it
DockerContainerVolumes_UnsupportedSkipped(a) ==
    IF a.create_volume
    THEN IF a.volume_type = "EMPTY_DIR"
         THEN [ok |-> TRUE,
               volumes |-> DictSet(EmptyDict, OrDefault(a.volume_name, get_default_volume_name(a.name)), VolumeBinding(a)),
               log |-> <<>>]
         ELSE IF a.volume_type = "HOST_PATH"
              THEN IF ~IsNone(a.volume_host_path)
                   THEN [ok |-> TRUE,
                         volumes |-> DictSet(EmptyDict, PathStr(Val(a.volume_host_path)), VolumeBinding(a)),
                         log |-> <<>>]
                   ELSE [ok |-> FALSE, volumes |-> EmptyDict, log |-> <<"Redis: volume_host_path not provided">>]
              ELSE [ok |-> TRUE, volumes |-> EmptyDict, log |-> <<"volume_type not supported">>]
    ELSE [ok |-> TRUE, volumes |-> EmptyDict, log |-> <<>>]

\* lines 434-455: [ok, volumes, log]; ok = FALSE is the early "return None"
DockerContainerVolumes(a) ==
    IF a.create_volume
    THEN IF a.volume_type = "EMPTY_DIR"
         THEN [ok |-> TRUE,
               volumes |-> DictSet(EmptyDict, OrDefault(a.volume_name, get_default_volume_name(a.name)), VolumeBinding(a)),
               log |-> <<>>]
         ELSE IF a.volume_type = "HOST_PATH"
              THEN IF ~IsNone(a.volume_host_path)
                   THEN [ok |-> TRUE,
                         volumes |-> DictSet(EmptyDict, PathStr(Val(a.volume_host_path)), VolumeBinding(a)),
                         log |-> <<>>]
                   ELSE [ok |-> FALSE, volumes |-> EmptyDict, log |-> <<"Redis: volume_host_path not provided">>]
              ELSE [ok |-> FALSE, volumes |-> EmptyDict, log |-> <<"volume_type not supported">>]
    ELSE [ok |-> TRUE, volumes |-> EmptyDict, log |-> <<>>]

\* faulty variant: the port binding is keyed by the host port
DockerContainer_PortsSwapped(a, ctx, container_env, container_volumes) ==
    [ name |-> get_container_name(a),
      image |-> get_image_str(a.image_name, a.image_tag),
      entrypoint |-> a.entrypoint, command |-> a.command,
      detach |-> a.container_detach, auto_remove |-> a.container_auto_remove,
      remove |-> a.container_remove, stdin_open |-> TRUE, tty |-> TRUE,
      environment |-> container_env,
      network |-> ctx.network,
      ports |-> DictSet(EmptyDict, IntToStr(a.container_host_port), a.container_port),
      volumes |-> container_volumes,
      use_cache |-> a.use_cache, use_verbose_logs |-> a.use_verbose_logs ]

\* lines 457-479
DockerContainer(a, ctx, container_env, container_volumes) ==
    [ name |-> get_container_name(a),
      image |-> get_image_str(a.image_name, a.image_tag),
      entrypoint |-> a.entrypoint, command |-> a.command,
      detach |-> a.container_detach, auto_remove |-> a.container_auto_remove,
      remove |-> a.container_remove, stdin_open |-> TRUE, tty |-> TRUE,
      environment |-> container_env,
      network |-> ctx.network,
      ports |-> DictSet(EmptyDict, IntToStr(a.container_port), a.container_host_port),
      volumes |-> container_volumes,
      use_cache |-> a.use_cache, use_verbose_logs |-> a.use_verbose_logs ]

\* lines 410-487
get_docker_rg(a, f, ctx) ==
    LET env_data_from_file == get_env_data_from_file(a, f)
        secret_data_from_file == get_secret_data_from_file(a, f)
        container_env == DockerContainerEnv(a, env_data_from_file.val, secret_data_from_file.val)
        vols == DockerContainerVolumes(a)
        log == env_data_from_file.log \o secret_data_from_file.log \o vols.log
    IN  IF ~vols.ok
        THEN [val |-> None, log |-> log]
        ELSE [val |-> Some([ name |-> a.name, enabled |-> a.enabled,
                             network |-> [name |-> ctx.network],
                             containers |-> <<DockerContainer(a, ctx, container_env, vols.volumes)>> ]),
              log |-> log]

\* faulty variant: the registry is created before the build's result is tested
DockerRegister_CreatedFirst(groups, docker_rg) ==
    IF ~IsNone(docker_rg)
    THEN Some(DictSet(IF IsNone(groups) THEN EmptyDict ELSE Val(groups), Val(docker_rg).name, Val(docker_rg)))
    ELSE IF IsNone(groups) THEN Some(EmptyDict) ELSE groups

\* lines 489-496: the registry after init_docker_resource_groups
DockerRegister(groups, docker_rg) ==
    IF ~IsNone(docker_rg)
    THEN Some(DictSet(IF IsNone(groups) THEN EmptyDict ELSE Val(groups), Val(docker_rg).name, Val(docker_rg)))
    ELSE groups

(***************************************************************************)
(* Kubernetes resources                                                    *)
(***************************************************************************)
\* faulty variant: the env file is applied after the inline env
K8sContainerEnv_FileLast(a, env_data_from_file) ==
    LET e1 == IF ~IsNone(a.env) THEN DictUpdate(EmptyDict, Val(a.env)) ELSE EmptyDict
    IN  IF ~IsNone(env_data_from_file) THEN DictUpdate(e1, Val(env_data_from_file)) ELSE e1

\* lines 509-518: env file, then the inline env (no secrets)
K8sContainerEnv(a, env_data_from_file) ==
    LET e1 == IF ~IsNone(env_data_from_file) THEN DictUpdate(EmptyDict, Val(env_data_from_file)) ELSE EmptyDict
    IN  IF ~IsNone(a.env) THEN DictUpdate(e1, Val(a.env)) ELSE e1

\* lines 519-524
CreateConfigMap(a, container_env) ==
    [ cm_name |-> OrDefault(a.config_map_name, get_default_configmap_name(a.name)),
      app_name |-> a.name, data |-> container_env ]

\* lines 526-534: a CreateSecret whenever the secrets file gave a mapping
CreateSecret(a, secret_data_from_file) ==
    IF ~IsNone(secret_data_from_file)
    THEN Some([ secret_name |-> OrDefault(a.secret_name, get_default_secret_name(a.name)),
                app_name |-> a.name, string_data |-> Val(secret_data_from_file) ])
    ELSE None

\* faulty variant: the volume is mounted at its own name
CreateVolume_MountIsName(a, volume_type, source) ==
    [ volume_name |-> OrDefault(a.volume_name, get_default_volume_name(a.name)),
      app_name |-> a.name, mount_path |-> OrDefault(a.volume_name, get_default_volume_name(a.name)),
      volume_type |-> volume_type, source |-> source ]

\* lines 543-548, 553-561, 578-586
CreateVolume(a, volume_type, source) ==
    [ volume_name |-> OrDefault(a.volume_name, get_default_volume_name(a.name)),
      app_name |-> a.name, mount_path |-> a.volume_container_path,
      volume_type |-> volume_type, source |-> source ]

\* faulty variant: the EbsVolume is asked for its id even when ebs_volume_id is given
EbsVolumeId_AlwaysLookup(a) ==
    IF ~IsNone(a.ebs_volume)
    THEN [id |-> Val(a.ebs_volume).volume_id, lookups |-> 1]
    ELSE [id |-> a.ebs_volume_id, lookups |-> 0]

\* lines 571-575: the given id, else one get_volume_id lookup on the EbsVolume
EbsVolumeId(a) ==
    IF IsNone(a.ebs_volume_id) /\ ~IsNone(a.ebs_volume)
    THEN [id |-> Val(a.ebs_volume).volume_id, lookups |-> 1]
    ELSE [id |-> a.ebs_volume_id, lookups |-> 0]

\* faulty variant: the zone of the EbsVolume object is preferred to ebs_volume_az
EbsTopologySelector_VolumeZoneFirst(a, pod_node_selector) ==
    LET s0 == IF IsNone(pod_node_selector) THEN EmptyDict ELSE Val(pod_node_selector)
        s1 == IF ~IsNone(a.ebs_volume_region) THEN DictSet(s0, TopologyRegionKey, Val(a.ebs_volume_region)) ELSE s0
        ebs_az == IF ~IsNone(a.ebs_volume) /\ ~IsNone(Val(a.ebs_volume).availability_zone)
                  THEN Val(a.ebs_volume).availability_zone
                  ELSE a.ebs_volume_az
    IN  Some(IF ~IsNone(ebs_az) THEN DictSet(s1, TopologyZoneKey, Val(ebs_az)) ELSE s1)

\* lines 588-605: the node selector with the topology keys of the EBS volume
EbsTopologySelector(a, pod_node_selector) ==
    LET s0 == IF IsNone(pod_node_selector) THEN EmptyDict ELSE Val(pod_node_selector)
        s1 == IF ~IsNone(a.ebs_volume_region) THEN DictSet(s0, TopologyRegionKey, Val(a.ebs_volume_region)) ELSE s0
        ebs_az == IF IsNone(a.ebs_volume_az) /\ ~IsNone(a.ebs_volume)
                  THEN Val(a.ebs_volume).availability_zone
                  ELSE a.ebs_volume_az
    IN  Some(IF ~IsNone(ebs_az) THEN DictSet(s1, TopologyZoneKey, Val(ebs_az)) ELSE s1)

\* lines 536-611: [ok, volumes, pod_node_selector, lookups, log]; ok = FALSE is
\* the early "return None"
K8sContainerVolumes(a) ==
    LET none == [ok |-> TRUE, volumes |-> <<>>, pod_node_selector |-> a.pod_node_selector, lookups |-> 0, log |-> <<>>]
    IN  IF ~a.create_volume THEN none
        ELSE IF a.volume_type = "EMPTY_DIR"
        THEN [none EXCEPT !.volumes = <<CreateVolume(a, "EMPTY_DIR", None)>>]
        ELSE IF a.volume_type = "HOST_PATH"
        THEN IF ~IsNone(a.volume_host_path)
             THEN [none EXCEPT !.volumes = <<CreateVolume(a, "HOST_PATH", Some(PathStr(Val(a.volume_host_path))))>>]
             ELSE [none EXCEPT !.ok = FALSE, !.log = <<"Redis: volume_host_path not provided">>]
        ELSE IF a.volume_type = "AWS_EBS"
        THEN IF ~IsNone(a.ebs_volume_id) \/ ~IsNone(a.ebs_volume)
             THEN [none EXCEPT !.volumes = <<CreateVolume(a, "AWS_EBS", EbsVolumeId(a).id)>>,
                               !.lookups = EbsVolumeId(a).lookups,
                               !.pod_node_selector = IF a.schedule_pods_in_ebs_topology
                                                     THEN EbsTopologySelector(a, a.pod_node_selector)
                                                     ELSE a.pod_node_selector]
             ELSE [none EXCEPT !.ok = FALSE, !.log = <<"Redis: ebs_volume not provided">>]
        ELSE [none EXCEPT !.ok = FALSE, !.log = <<"volume_type not supported">>]

\* lines 539, 597, 605: the selector is args.pod_node_selector itself unless
\* that is None, so the topology keys are written into the args' own dict
ArgsAfterVolumes(a) ==
    IF K8sContainerVolumes(a).ok /\ ~IsNone(a.pod_node_selector)
    THEN [a EXCEPT !.pod_node_selector = K8sContainerVolumes(a).pod_node_selector]
    ELSE a

\* faulty variant: the lower bound is exclusive
NodePortOutOfRange_OffByOne(node_port) == node_port <= MinNodePort \/ node_port > MaxNodePort

\* lines 623-627 and 636: the node-port range check
NodePortOutOfRange(node_port) == node_port < MinNodePort \/ node_port > MaxNodePort

\* faulty variant: a LOAD_BALANCER node port is taken without the range check
NodePortCheck_LoadBalancerUnchecked(a) ==
    LET invalid == [ok |-> FALSE, node_port |-> None, reset |-> FALSE,
                    log |-> <<"NodePort invalid", "Skipping this service">>]
        keep == [ok |-> TRUE, node_port |-> None, reset |-> FALSE, log |-> <<>>]
    IN  IF a.service_type = Some("NODE_PORT")
        THEN IF IsNone(a.node_port) \/ NodePortOutOfRange(Val(a.node_port))
             THEN invalid
             ELSE [keep EXCEPT !.node_port = a.node_port]
        ELSE IF a.service_type = Some("LOAD_BALANCER")
        THEN [keep EXCEPT !.node_port = a.node_port]
        ELSE IF ~IsNone(a.node_port)
        THEN [keep EXCEPT !.reset = TRUE, !.log = <<"NodePort provided without ServiceType", "NodePort value will be ignored">>]
        ELSE keep

\* faulty variant: a node port given without NODE_PORT / LOAD_BALANCER is still put on the port
NodePortCheck_IgnoredPortKept(a) ==
    LET invalid == [ok |-> FALSE, node_port |-> None, reset |-> FALSE,
                    log |-> <<"NodePort invalid", "Skipping this service">>]
        keep == [ok |-> TRUE, node_port |-> None, reset |-> FALSE, log |-> <<>>]
    IN  IF a.service_type = Some("NODE_PORT")
        THEN IF IsNone(a.node_port) \/ NodePortOutOfRange(Val(a.node_port))
             THEN invalid
             ELSE [keep EXCEPT !.node_port = a.node_port]
        ELSE IF a.service_type = Some("LOAD_BALANCER")
        THEN IF ~IsNone(a.node_port)
             THEN IF NodePortOutOfRange(Val(a.node_port))
                  THEN invalid
                  ELSE [keep EXCEPT !.node_port = a.node_port]
             ELSE keep
        ELSE IF ~IsNone(a.node_port)
        THEN [keep EXCEPT !.node_port = a.node_port, !.reset = TRUE,
                          !.log = <<"NodePort provided without ServiceType", "NodePort value will be ignored">>]
        ELSE keep

\* lines 621-648: [ok, node_port, reset, log]; node_port is what the port
\* carries, reset says that args.node_port is set to None
NodePortCheck(a) ==
    LET invalid == [ok |-> FALSE, node_port |-> None, reset |-> FALSE,
                    log |-> <<"NodePort invalid", "Skipping this service">>]
        keep == [ok |-> TRUE, node_port |-> None, reset |-> FALSE, log |-> <<>>]
    IN  IF a.service_type = Some("NODE_PORT")
        THEN IF IsNone(a.node_port) \/ NodePortOutOfRange(Val(a.node_port))
             THEN invalid
             ELSE [keep EXCEPT !.node_port = a.node_port]
        ELSE IF a.service_type = Some("LOAD_BALANCER")
        THEN IF ~IsNone(a.node_port)
             THEN IF NodePortOutOfRange(Val(a.node_port))
                  THEN invalid
                  ELSE [keep EXCEPT !.node_port = a.node_port]
             ELSE keep
        ELSE IF ~IsNone(a.node_port)
        THEN [keep EXCEPT !.reset = TRUE, !.log = <<"NodePort provided without ServiceType", "NodePort value will be ignored">>]
        ELSE keep

\* line 648
ArgsAfterNodePort(a) == IF NodePortCheck(a).ok /\ NodePortCheck(a).reset THEN [a EXCEPT !.node_port = None] ELSE a

\* lines 613-619 and 632/641
CreatePort(a, node_port) ==
    [ name |-> a.container_port_name, container_port |-> a.container_port,
      service_port |-> a.service_port,
      target_port |-> OrDefault(a.target_port, a.container_port_name),
      node_port |-> node_port ]

\* lines 650-670
CreateContainer(a, ctx, cm, secret, port, volumes) ==
    [ container_name |-> get_container_name(a), app_name |-> a.name,
      image_name |-> a.image_name, image_tag |-> a.image_tag,
      args |-> a.command, command |-> a.entrypoint,
      image_pull_policy |-> a.image_pull_policy,
      envs_from_configmap |-> <<cm.cm_name>>,
      envs_from_secret |-> IF ObjTruthy(secret) THEN Some(<<Val(secret).secret_name>>) ELSE None,
      ports |-> <<port>>, volumes |-> volumes, labels |-> ctx.labels ]

\* lines 672-686
CreateDeployment(a, ctx, container, pod_node_selector, volumes) ==
    [ deploy_name |-> OrDefault(a.deploy_name, get_default_deploy_name(a.name)),
      pod_name |-> OrDefault(a.pod_name, get_default_pod_name(a.name)),
      app_name |-> a.name, namespace |-> ctx.namespace,
      service_account_name |-> ctx.service_account_name,
      replicas |-> a.replicas, containers |-> <<container>>,
      pod_node_selector |-> pod_node_selector,
      restart_policy |-> a.restart_policy,
      termination_grace_period_seconds |-> a.termination_grace_period_seconds,
      volumes |-> volumes, labels |-> ctx.labels ]

\* lines 688-698
CreateService(a, ctx, deployment, port) ==
    [ service_name |-> get_service_name(a), app_name |-> a.name,
      namespace |-> ctx.namespace, service_account_name |-> ctx.service_account_name,
      service_type |-> a.service_type, deployment |-> deployment,
      ports |-> <<port>>, labels |-> ctx.labels ]

\* CreateK8sResourceGroup(...).create(): the group with every listed resource
CreateK8sResourceGroup(name, enabled, config_maps, secrets, services, deployments) ==
    [ name |-> name, enabled |-> enabled,
      config_maps |-> IF IsNone(config_maps) THEN <<>> ELSE Val(config_maps),
      secrets |-> IF IsNone(secrets) THEN <<>> ELSE Val(secrets),
      services |-> IF IsNone(services) THEN <<>> ELSE Val(services),
      deployments |-> IF IsNone(deployments) THEN <<>> ELSE Val(deployments) ]

\* faulty variant: the Deployment is built but not listed in the group
get_k8s_rg_DeploymentNotListed(a, f, ctx) ==
    LET env_data_from_file == get_env_data_from_file(a, f)
        container_env_cm == CreateConfigMap(a, K8sContainerEnv(a, env_data_from_file.val))
        secret_data_from_file == get_secret_data_from_file(a, f)
        container_env_secret == CreateSecret(a, secret_data_from_file.val)
        vols == K8sContainerVolumes(a)
        check == NodePortCheck(a)
        container_port == CreatePort(a, check.node_port)
        k8s_container == CreateContainer(a, ctx, container_env_cm, container_env_secret, container_port, vols.volumes)
        k8s_deployment == CreateDeployment(a, ctx, k8s_container, vols.pod_node_selector, vols.volumes)
        k8s_service == CreateService(a, ctx, k8s_deployment, container_port)
        log0 == env_data_from_file.log \o secret_data_from_file.log \o vols.log
    IN  IF ~vols.ok
        THEN [val |-> None, log |-> log0, lookups |-> vols.lookups, args |-> a]
        ELSE IF ~check.ok
        THEN [val |-> None, log |-> log0 \o check.log, lookups |-> vols.lookups, args |-> ArgsAfterVolumes(a)]
        ELSE [val |-> Some(CreateK8sResourceGroup(a.name, a.enabled,
                                Some(<<container_env_cm>>),
                                IF ObjTruthy(container_env_secret) THEN Some(<<Val(container_env_secret)>>) ELSE None,
                                Some(<<k8s_service>>),
                                None)),
              log |-> log0 \o check.log, lookups |-> vols.lookups,
              args |-> ArgsAfterNodePort(ArgsAfterVolumes(a))]

\* lines 502-710: [val, log, lookups, args]; args is self.args when the call returns
get_k8s_rg(a, f, ctx) ==
    LET env_data_from_file == get_env_data_from_file(a, f)
        container_env_cm == CreateConfigMap(a, K8sContainerEnv(a, env_data_from_file.val))
        secret_data_from_file == get_secret_data_from_file(a, f)
        container_env_secret == CreateSecret(a, secret_data_from_file.val)
        vols == K8sContainerVolumes(a)
        check == NodePortCheck(a)
        container_port == CreatePort(a, check.node_port)
        k8s_container == CreateContainer(a, ctx, container_env_cm, container_env_secret, container_port, vols.volumes)
        k8s_deployment == CreateDeployment(a, ctx, k8s_container, vols.pod_node_selector, vols.volumes)
        k8s_service == CreateService(a, ctx, k8s_deployment, container_port)
        log0 == env_data_from_file.log \o secret_data_from_file.log \o vols.log
    IN  IF ~vols.ok
        THEN [val |-> None, log |-> log0, lookups |-> vols.lookups, args |-> a]
        ELSE IF ~check.ok
        THEN [val |-> None, log |-> log0 \o check.log, lookups |-> vols.lookups, args |-> ArgsAfterVolumes(a)]
        ELSE [val |-> Some(CreateK8sResourceGroup(a.name, a.enabled,
                                Some(<<container_env_cm>>),
                                IF ObjTruthy(container_env_secret) THEN Some(<<Val(container_env_secret)>>) ELSE None,
                                Some(<<k8s_service>>),
                                Some(<<k8s_deployment>>))),
              log |-> log0 \o check.log, lookups |-> vols.lookups,
              args |-> ArgsAfterNodePort(ArgsAfterVolumes(a))]

\* lines 712-717: the registry after init_k8s_resource_groups
K8sRegister(groups, k8s_rg) ==
    IF ~IsNone(k8s_rg)
    THEN Some(DictSet(IF IsNone(groups) THEN EmptyDict ELSE Val(groups), Val(k8s_rg).name, Val(k8s_rg)))
    ELSE groups

(***************************************************************************)
(* Inputs: the constructor arguments and the files on disk                 *)
(***************************************************************************)
NumEnvKeys == 2

KeyPool == <<"A", "B", "C", "D">>

EnvKeys == {KeyPool[i] : i \in 1..NumEnvKeys}

\* every dict over a subset of the keys, with the one value v
DictsOver(keys, v) == UNION {[S -> {v}] : S \in SUBSET keys}

\* a path argument and what the path names on disk
MappingFiles(path, maps) == {<<Some(path), RegularFile(YamlMap(d))>> : d \in maps}

NoFile == <<None, MissingFile>>

OddFiles(path) ==
    { <<Some(path), MissingFile>>, <<Some(path), Directory>>,
      <<Some(path), RegularFile(YamlNone)>>, <<Some(path), RegularFile(YamlScalar)>> }

Config(a, envf, secf) ==
    [ args |-> [a EXCEPT !.env_file = envf[1], !.secrets_file = secf[1]],
      fs |-> [p \in {EnvFilePath, SecretsFilePath} |-> IF p = EnvFilePath THEN envf[2] ELSE secf[2]] ]

\* the three sources of the environment
EnvConfigs ==
    { Config([DefaultArgs EXCEPT !.env = e], envf, secf) :
        e \in {None} \cup {Some(d) : d \in DictsOver(EnvKeys, <<"i">>)},
        envf \in {NoFile, <<Some(EnvFilePath), RegularFile(YamlScalar)>>}
                 \cup MappingFiles(EnvFilePath, DictsOver(EnvKeys, <<"e">>)),
        secf \in {NoFile, <<Some(SecretsFilePath), RegularFile(YamlScalar)>>}
                 \cup MappingFiles(SecretsFilePath, DictsOver(EnvKeys, <<"s">>)) }

\* paths that name no file, a directory, an empty file or a non-mapping
FileConfigs ==
    { Config([DefaultArgs EXCEPT !.env = Some([A |-> <<"i">>])], envf, secf) :
        envf \in {NoFile} \cup OddFiles(EnvFilePath) \cup MappingFiles(EnvFilePath, {[A |-> <<"e">>, B |-> <<"e">>]}),
        secf \in {NoFile} \cup OddFiles(SecretsFilePath) \cup MappingFiles(SecretsFilePath, {[B |-> <<"s">>]}) }

SecretMaps ==
    { [k \in S |-> IF k = REDIS_PASSWORD THEN pw ELSE <<"0">>] :
        S \in SUBSET {REDIS_PASSWORD, REDIS_SCHEMA}, pw \in {<<>>, <<"s3cret">>} }

\* password, schema, names and ports
DbConfigs ==
    { Config([DefaultArgs EXCEPT !.redis_password = pw, !.redis_schema = sc, !.redis_driver = names[1],
                                 !.container_name = names[2], !.service_name = names[3],
                                 !.container_port = ports[1], !.container_host_port = ports[2],
                                 !.service_port = ports[3]],
             NoFile, secf) :
        pw \in {None, Some(<<>>), Some(<<"pw">>)},
        sc \in {None, Some(<<"1">>)},
        names \in { <<(<<"redis">>), None, None>>, <<(<<"rediss">>), Some(<<"cache">>), Some(<<"cache-svc">>)>> },
        ports \in { <<DefaultRedisPort, DefaultRedisPort, DefaultRedisPort>>, <<DefaultRedisPort, 16379, 6380>> },
        secf \in {NoFile, <<Some(SecretsFilePath), RegularFile(YamlScalar)>>}
                 \cup MappingFiles(SecretsFilePath, SecretMaps) }

NodePortSamples == {None, Some(MinNodePort - 1), Some(MinNodePort), Some(MaxNodePort), Some(MaxNodePort + 1)}

\* volume type against service type and node port
VolumeConfigs ==
    { Config([DefaultArgs EXCEPT !.create_volume = cv, !.volume_type = vt, !.volume_host_path = hp,
                                 !.service_type = st, !.node_port = np],
             NoFile, secf) :
        cv \in BOOLEAN, vt \in RedisVolumeType, hp \in {None, Some(<<"mnt", "redis">>)},
        st \in {None} \cup {Some(t) : t \in ServiceType}, np \in NodePortSamples,
        secf \in {NoFile} }

EbsVolume(volume_id, availability_zone) == [volume_id |-> volume_id, availability_zone |-> availability_zone]

\* an EBS volume: id, reference object, region, zone and the node selector
EbsConfigs ==
    { Config([DefaultArgs EXCEPT !.volume_type = "AWS_EBS", !.ebs_volume_id = id, !.ebs_volume = vol,
                                 !.ebs_volume_region = region, !.ebs_volume_az = az,
                                 !.schedule_pods_in_ebs_topology = sched, !.pod_node_selector = sel,
                                 !.service_type = svc[1], !.node_port = svc[2]],
             NoFile, NoFile) :
        id \in {None, Some(<<"vol-1">>)},
        vol \in {None, Some(EbsVolume(None, None)), Some(EbsVolume(Some(<<"vol-2">>), Some(<<"az-b">>)))},
        region \in {None, Some(<<"r1">>)}, az \in {None, Some(<<"az-a">>)},
        sched \in BOOLEAN,
        sel \in {None, Some(EmptyDict),
                 Some([k \in {TopologyRegionKey, TopologyZoneKey} |-> <<"own">>])},
        svc \in { <<None, None>>, <<None, Some(MinNodePort)>>, <<Some("NODE_PORT"), Some(MinNodePort - 1)>> } }

\* the seven resource names: none given, all given as the empty string, all given
ExplicitNames ==
    { [container |-> None, cm |-> None, secret |-> None, svc |-> None, volume |-> None, deploy |-> None, pod |-> None],
      [container |-> Some(<<>>), cm |-> Some(<<>>), secret |-> Some(<<>>), svc |-> Some(<<>>),
       volume |-> Some(<<>>), deploy |-> Some(<<>>), pod |-> Some(<<>>)],
      [container |-> Some(<<"c1">>), cm |-> Some(<<"env1">>), secret |-> Some(<<"sec1">>), svc |-> Some(<<"svc1">>),
       volume |-> Some(<<"vol1">>), deploy |-> Some(<<"dep1">>), pod |-> Some(<<"pod1">>)],
      [container |-> Some(<<"c1">>), cm |-> None, secret |-> Some(<<"sec1">>), svc |-> None,
       volume |-> Some(<<"vol1">>), deploy |-> None, pod |-> Some(<<"pod1">>)] }

\* app name and resource names, with a Secret and a volume to carry theirs
NameConfigs ==
    { Config([DefaultArgs EXCEPT !.name = name, !.container_name = n.container, !.config_map_name = n.cm,
                                 !.secret_name = n.secret, !.service_name = n.svc, !.volume_name = n.volume,
                                 !.deploy_name = n.deploy, !.pod_name = n.pod],
             NoFile, secf) :
        name \in {<<"redis">>, <<"cache">>}, n \in ExplicitNames,
        secf \in MappingFiles(SecretsFilePath, {[A |-> <<"s">>]}) }

\* the enabled flag, the mount path and the two ports, for each volume Docker handles
GroupConfigs ==
    { Config([DefaultArgs EXCEPT !.enabled = en, !.volume_container_path = mount,
                                 !.volume_type = vol[1], !.volume_host_path = vol[2],
                                 !.container_port = ports[1], !.container_host_port = ports[2]],
             NoFile, NoFile) :
        en \in BOOLEAN, mount \in {<<"/", "data">>, <<"/", "var", "/", "redis">>},
        vol \in {<<"EMPTY_DIR", None>>, <<"HOST_PATH", Some(<<"mnt", "redis">>)>>},
        ports \in {<<DefaultRedisPort, DefaultRedisPort>>, <<6380, 16380>>} }

Configs ==
    EnvConfigs \cup FileConfigs \cup DbConfigs \cup VolumeConfigs \cup EbsConfigs \cup NameConfigs \cup GroupConfigs

DockerBuildContexts == {[network |-> <<"phi">>], [network |-> <<"bridge">>]}

K8sBuildContexts ==
    { [namespace |-> ns, service_account_name |-> None, labels |-> EmptyDict] : ns \in {<<"default">>, <<"prd">>} }

(***************************************************************************)
(* State machine: a constructed Redis app and the calls made on it.  ret   *)
(* is the last call: its name, value, printed errors and EBS lookups.      *)
(* constructed_args records the RedisArgs that __init__ built; no method   *)
(* writes it.                                                              *)
(***************************************************************************)
Return(op, val, log, lookups) == [op |-> op, val |-> val, log |-> log, lookups |-> lookups]

Init ==
    /\ \E c \in Configs : args = c.args /\ fs = c.fs /\ constructed_args = c.args
    /\ docker_resource_groups = None
    /\ k8s_resource_groups = None
    /\ ret = Return("none", None, <<>>, 0)
    /\ create_pv = None /\ file = None /\ disk = EmptyDict
    /\ kwargs = None /\ exc = None /\ before = None

GetDockerRg ==
    \E ctx \in DockerBuildContexts : \E r \in {get_docker_rg(args, fs, ctx)} :
        /\ ret' = Return("get_docker_rg", r.val, r.log, 0)
        /\ UNCHANGED <<args, fs, docker_resource_groups, k8s_resource_groups, constructed_args,
                     create_pv, file, disk, kwargs, exc, before>>

InitDockerResourceGroups ==
    \E ctx \in DockerBuildContexts : \E r \in {get_docker_rg(args, fs, ctx)} :
        /\ docker_resource_groups' = DockerRegister(docker_resource_groups, r.val)
        /\ ret' = Return("init_docker_resource_groups", None, r.log, 0)
        /\ UNCHANGED <<args, fs, k8s_resource_groups, constructed_args,
                     create_pv, file, disk, kwargs, exc, before>>

GetK8sRg ==
    \E ctx \in K8sBuildContexts : \E r \in {get_k8s_rg(args, fs, ctx)} :
        /\ ret' = Return("get_k8s_rg", r.val, r.log, r.lookups)
        /\ args' = r.args
        /\ UNCHANGED <<fs, docker_resource_groups, k8s_resource_groups, constructed_args,
                     create_pv, file, disk, kwargs, exc, before>>

InitK8sResourceGroups ==
    \E ctx \in K8sBuildContexts : \E r \in {get_k8s_rg(args, fs, ctx)} :
        /\ k8s_resource_groups' = K8sRegister(k8s_resource_groups, r.val)
        /\ ret' = Return("init_k8s_resource_groups", None, r.log, r.lookups)
        /\ args' = r.args
        /\ UNCHANGED <<fs, docker_resource_groups, constructed_args,
                     create_pv, file, disk, kwargs, exc, before>>

GetDbPassword ==
    \E r \in {get_db_password(args, fs)} :
        /\ ret' = Return("get_db_password", r.val, r.log, 0)
        /\ UNCHANGED <<args, fs, docker_resource_groups, k8s_resource_groups, constructed_args,
                     create_pv, file, disk, kwargs, exc, before>>

GetDbSchema ==
    \E r \in {get_db_schema(args, fs)} :
        /\ ret' = Return("get_db_schema", r.val, r.log, 0)
        /\ UNCHANGED <<args, fs, docker_resource_groups, k8s_resource_groups, constructed_args,
                     create_pv, file, disk, kwargs, exc, before>>

GetDbConnectionUrlLocal ==
    \E r \in {get_db_connection_url_local(args, fs)} :
        /\ ret' = Return("get_db_connection_url_local", r.val, r.log, 0)
        /\ UNCHANGED <<args, fs, docker_resource_groups, k8s_resource_groups, constructed_args,
                     create_pv, file, disk, kwargs, exc, before>>

GetDbConnectionUrlDocker ==
    \E r \in {get_db_connection_url_docker(args, fs)} :
        /\ ret' = Return("get_db_connection_url_docker", r.val, r.log, 0)
        /\ UNCHANGED <<args, fs, docker_resource_groups, k8s_resource_groups, constructed_args,
                     create_pv, file, disk, kwargs, exc, before>>

GetDbConnectionUrlK8s ==
    \E r \in {get_db_connection_url_k8s(args, fs)} :
        /\ ret' = Return("get_db_connection_url_k8s", r.val, r.log, 0)
        /\ UNCHANGED <<args, fs, docker_resource_groups, k8s_resource_groups, constructed_args,
                     create_pv, file, disk, kwargs, exc, before>>

Next ==
    \/ GetDockerRg
    \/ InitDockerResourceGroups
    \/ GetK8sRg
    \/ InitK8sResourceGroups
    \/ GetDbPassword
    \/ GetDbSchema
    \/ GetDbConnectionUrlLocal
    \/ GetDbConnectionUrlDocker
    \/ GetDbConnectionUrlK8s

Spec == Init /\ [][Next]_vars

(***************************************************************************)
(* Vocabulary of the properties                                            *)
(***************************************************************************)
\* what a file contributes: its mapping when the path names a regular file
\* that parses to a mapping, and nothing otherwise
FileMapping(path) ==
    IF ~IsNone(path) /\ fs[Val(path)].exists /\ fs[Val(path)].is_file /\ fs[Val(path)].yaml.kind = "map"
    THEN fs[Val(path)].yaml.map
    ELSE EmptyDict

InlineEnv == IF IsNone(args.env) THEN EmptyDict ELSE Val(args.env)

NodePortInRange(np) == ~IsNone(np) /\ MinNodePort <= Val(np) /\ Val(np) <= MaxNodePort

\* the volume branch does not abort the build
VolumeResolves ==
    \/ ~args.create_volume
    \/ args.volume_type = "EMPTY_DIR"
    \/ args.volume_type = "HOST_PATH" /\ ~IsNone(args.volume_host_path)
    \/ args.volume_type = "AWS_EBS" /\ (~IsNone(args.ebs_volume_id) \/ ~IsNone(args.ebs_volume))

\* node-port validation lets the build through
NodePortAccepted ==
    /\ args.service_type = Some("NODE_PORT") => NodePortInRange(args.node_port)
    /\ args.service_type = Some("LOAD_BALANCER") => (IsNone(args.node_port) \/ NodePortInRange(args.node_port))

Returned(op) == ret.op = op /\ ~IsNone(ret.val)

CountOf(token, text) == Cardinality({i \in DOMAIN text : text[i] = token})

UrlOps == {"get_db_connection_url_local", "get_db_connection_url_docker", "get_db_connection_url_k8s"}

\* host and port of a connection URL, per context; a name given as the empty
\* string counts as not given
UrlHost(op) ==
    CASE op = "get_db_connection_url_local" -> <<"localhost">>
      [] op = "get_db_connection_url_docker" -> IF StrTruthy(args.container_name) THEN Val(args.container_name) ELSE <<"container", "-">> \o args.name
      [] op = "get_db_connection_url_k8s" -> IF StrTruthy(args.service_name) THEN Val(args.service_name) ELSE <<"svc", "-">> \o args.name

UrlPort(op) ==
    CASE op = "get_db_connection_url_local" -> args.container_host_port
      [] op = "get_db_connection_url_docker" -> args.container_port
      [] op = "get_db_connection_url_k8s" -> args.service_port

\* REDIS_PASSWORD / REDIS_SCHEMA of the secrets file, else the constructor's field
SecretOrField(key, field) ==
    IF key \in DOMAIN FileMapping(args.secrets_file) THEN Some(FileMapping(args.secrets_file)[key]) ELSE field

(***************************************************************************)
(* C1: with service_type NODE_PORT and a null or out-of-range node_port,   *)
(* get_k8s_rg drops only the Service: the returned group still holds the   *)
(* ConfigMap and the Deployment.                                           *)
(***************************************************************************)
C1_OnlyServiceDropped ==
    (ret.op = "get_k8s_rg" /\ args.service_type = Some("NODE_PORT") /\ ~NodePortInRange(args.node_port) /\ VolumeResolves)
        => /\ ~IsNone(ret.val)
           /\ Len(Val(ret.val).config_maps) = 1
           /\ Len(Val(ret.val).deployments) = 1
           /\ Len(Val(ret.val).services) = 0

(***************************************************************************)
(* C2: for service_type NODE_PORT, get_k8s_rg emits a Service if and only  *)
(* if 30000 <= node_port <= 32767, and the emitted Service's port carries  *)
(* that node_port.  As amended: if and only if the node port is in range   *)
(* and the volume branch does not abort the build.                         *)
(***************************************************************************)
HasService == Returned("get_k8s_rg") /\ Len(Val(ret.val).services) = 1

\* C2 as stated: for NODE_PORT a Service is emitted iff the node port is in [30000, 32767]
C2_ServiceIffNodePortInRange ==
    (ret.op = "get_k8s_rg" /\ args.service_type = Some("NODE_PORT"))
        => /\ HasService <=> NodePortInRange(args.node_port)
           /\ HasService => Val(ret.val).services[1].ports[1].node_port = args.node_port

\* C2 as amended: ... iff the node port is in range and the volume branch does not abort
C2_ServiceIffNodePortInRangeAndVolume ==
    (ret.op = "get_k8s_rg" /\ args.service_type = Some("NODE_PORT"))
        => /\ HasService <=> (NodePortInRange(args.node_port) /\ VolumeResolves)
           /\ HasService => /\ Len(Val(ret.val).services[1].ports) = 1
                            /\ Val(ret.val).services[1].ports[1].node_port = args.node_port

\* C2: a NODE_PORT build at the upper bound 32767 emits a Service carrying it
C2_Witness ==
    /\ HasService
    /\ args.service_type = Some("NODE_PORT")
    /\ args.node_port = Some(MaxNodePort)
    /\ Val(ret.val).services[1].ports[1].node_port = Some(MaxNodePort)

(***************************************************************************)
(* C3: the environment of the Docker container is the env-file data        *)
(* overlaid by the secrets-file data overlaid by the inline env: per key,  *)
(* inline wins over secrets file wins over env file, and an absent source  *)
(* contributes no key.                                                     *)
(***************************************************************************)
C3_DockerEnvPrecedence ==
    Returned("get_docker_rg")
        => LET env == Val(ret.val).containers[1].environment
               ef == FileMapping(args.env_file)
               sf == FileMapping(args.secrets_file)
           IN  /\ DOMAIN env = (DOMAIN ef) \cup (DOMAIN sf) \cup (DOMAIN InlineEnv)
               /\ \A k \in DOMAIN env :
                    env[k] = IF k \in DOMAIN InlineEnv THEN InlineEnv[k]
                             ELSE IF k \in DOMAIN sf THEN sf[k]
                             ELSE ef[k]

\* C3: a key in all three sources and a key in both files only
C3_Witness ==
    /\ Returned("get_docker_rg")
    /\ {"A", "B"} \subseteq DOMAIN FileMapping(args.env_file)
    /\ {"A", "B"} \subseteq DOMAIN FileMapping(args.secrets_file)
    /\ "A" \in DOMAIN InlineEnv /\ "B" \notin DOMAIN InlineEnv
    /\ Val(ret.val).containers[1].environment["A"] = <<"i">>
    /\ Val(ret.val).containers[1].environment["B"] = <<"s">>

(***************************************************************************)
(* C4: get_k8s_rg emits no Secret when the secrets file is absent or empty *)
(* (an empty mapping included) and exactly one Secret holding the          *)
(* secrets-file mapping when that mapping is non-empty; never an empty     *)
(* Secret.                                                                 *)
(***************************************************************************)
C4_NoEmptySecret ==
    Returned("get_k8s_rg")
        => LET sf == FileMapping(args.secrets_file)
           IN  IF DOMAIN sf = {}
               THEN Len(Val(ret.val).secrets) = 0
               ELSE Len(Val(ret.val).secrets) = 1 /\ Val(ret.val).secrets[1].string_data = sf

(***************************************************************************)
(* C5: in each context the URL is <driver>://<password>@<host>:<port>/     *)
(* <schema> with exactly one '@' between a non-empty password and the      *)
(* host; host and port are localhost and container_host_port (local), the  *)
(* container name and container_port (docker), the service name and       *)
(* service_port (k8s).                                                     *)
(***************************************************************************)
C5_UrlHasOneAt ==
    (ret.op \in UrlOps /\ StrTruthy(get_db_password(args, fs).val))
        => /\ ret.val = args.redis_driver \o <<":", "/", "/">> \o Val(get_db_password(args, fs).val) \o <<"@">>
                          \o UrlHost(ret.op) \o <<":">> \o IntToStr(UrlPort(ret.op)) \o <<"/">>
                          \o FmtOptStr(get_db_schema(args, fs).val)
           /\ CountOf("@", ret.val) = 1

(***************************************************************************)
(* C6: with no password resolvable (no redis_password, no REDIS_PASSWORD   *)
(* in the secrets file) the URL is <driver>://@<host>:<port>/<schema>; for *)
(* driver redis, the local context, host port 6379 and schema 0 it is      *)
(* exactly redis://@localhost:6379/0.                                      *)
(***************************************************************************)
NoPasswordResolvable == IsNone(args.redis_password) /\ REDIS_PASSWORD \notin DOMAIN FileMapping(args.secrets_file)

\* C6: a missing password leaves a bare @ before the host, in every context
C6_NoPasswordUrl ==
    (ret.op \in UrlOps /\ NoPasswordResolvable)
        => /\ ret.val = args.redis_driver \o <<":", "/", "/", "@">> \o UrlHost(ret.op) \o <<":">>
                          \o IntToStr(UrlPort(ret.op)) \o <<"/">> \o FmtOptStr(get_db_schema(args, fs).val)
           /\ ( /\ ret.op = "get_db_connection_url_local"
                /\ args.redis_driver = <<"redis">>
                /\ args.container_host_port = 6379
                /\ get_db_schema(args, fs).val = Some(<<"0">>) )
              => ret.val = <<"redis", ":", "/", "/", "@", "localhost", ":", "6", "3", "7", "9", "/", "0">>

\* C6: the local URL redis://@localhost:6379/0 is produced
C6_Witness ==
    /\ ret.op = "get_db_connection_url_local"
    /\ NoPasswordResolvable
    /\ args.redis_driver = <<"redis">>
    /\ args.container_host_port = 6379
    /\ REDIS_SCHEMA \in DOMAIN FileMapping(args.secrets_file)
    /\ ret.val = <<"redis", ":", "/", "/", "@", "localhost", ":", "6", "3", "7", "9", "/", "0">>

(***************************************************************************)
(* C7: get_db_password / get_db_schema return the secrets-file value of    *)
(* REDIS_PASSWORD / REDIS_SCHEMA whenever the file has the key, and the    *)
(* explicitly supplied field only when the file is absent or lacks it.     *)
(***************************************************************************)
C7_SecretsFileThenField ==
    /\ ret.op = "get_db_password" => ret.val = SecretOrField(REDIS_PASSWORD, args.redis_password)
    /\ ret.op = "get_db_schema" => ret.val = SecretOrField(REDIS_SCHEMA, args.redis_schema)

(***************************************************************************)
(* C8: a redis_password / redis_schema given to the constructor is what    *)
(* get_db_password / get_db_schema return, and what the connection URLs    *)
(* show, when the secrets file does not provide the key.                   *)
(***************************************************************************)
C8_ConstructorFieldUsed ==
    /\ (ret.op = "get_db_password" /\ REDIS_PASSWORD \notin DOMAIN FileMapping(args.secrets_file))
          => ret.val = args.redis_password
    /\ (ret.op = "get_db_schema" /\ REDIS_SCHEMA \notin DOMAIN FileMapping(args.secrets_file))
          => ret.val = args.redis_schema
    /\ (ret.op \in UrlOps /\ REDIS_SCHEMA \notin DOMAIN FileMapping(args.secrets_file) /\ ~IsNone(args.redis_schema))
          => SubSeq(ret.val, Len(ret.val) - Len(Val(args.redis_schema)) + 1, Len(ret.val)) = Val(args.redis_schema)

(***************************************************************************)
(* C9: with create_volume set, volume_type HOST_PATH and no                *)
(* volume_host_path, get_docker_rg and get_k8s_rg return no resource group *)
(* and init_docker_resource_groups / init_k8s_resource_groups register     *)
(* nothing.                                                                *)
(***************************************************************************)
HostPathMissing == args.create_volume /\ args.volume_type = "HOST_PATH" /\ IsNone(args.volume_host_path)

\* C9: HOST_PATH without a host path builds and registers nothing
C9_HostPathMissingBuildsNothing ==
    HostPathMissing
        => /\ ret.op \in {"get_docker_rg", "get_k8s_rg"} => IsNone(ret.val)
           /\ IsNone(docker_resource_groups)
           /\ IsNone(k8s_resource_groups)

\* C9: init_k8s_resource_groups has run on such an app and both registries are empty
C9_Witness ==
    /\ HostPathMissing
    /\ ret.op = "init_k8s_resource_groups"
    /\ IsNone(k8s_resource_groups)
    /\ IsNone(docker_resource_groups)

(***************************************************************************)
(* C10: volume_type EMPTY_DIR always yields a volume descriptor (name and  *)
(* mount path) in the output of get_docker_rg and of get_k8s_rg, whatever  *)
(* the other fields.  As amended: with create_volume set; get_docker_rg    *)
(* then always returns a group with the descriptor, and get_k8s_rg returns *)
(* a group exactly when node-port validation passes, with the descriptor.  *)
(***************************************************************************)
VolumeName == IF StrTruthy(args.volume_name) THEN Val(args.volume_name) ELSE <<"volume", "-">> \o args.name

DockerHasVolume ==
    /\ Returned("get_docker_rg")
    /\ VolumeName \in DOMAIN Val(ret.val).containers[1].volumes
    /\ Val(ret.val).containers[1].volumes[VolumeName].bind = args.volume_container_path

K8sHasEmptyDirVolume ==
    /\ Returned("get_k8s_rg")
    /\ Len(Val(ret.val).deployments) = 1
    /\ \E i \in DOMAIN Val(ret.val).deployments[1].volumes :
          /\ Val(ret.val).deployments[1].volumes[i].volume_type = "EMPTY_DIR"
          /\ Val(ret.val).deployments[1].volumes[i].volume_name = VolumeName
          /\ Val(ret.val).deployments[1].volumes[i].mount_path = args.volume_container_path

\* C10 as stated: EMPTY_DIR yields a volume descriptor whatever the other fields
C10_EmptyDirAlwaysYieldsVolume ==
    args.volume_type = "EMPTY_DIR"
        => /\ ret.op = "get_docker_rg" => DockerHasVolume
           /\ ret.op = "get_k8s_rg" => K8sHasEmptyDirVolume

\* C10 as amended: with create_volume set; the k8s build returns iff node-port validation passes
C10_EmptyDirYieldsVolumeWhenCreated ==
    (args.create_volume /\ args.volume_type = "EMPTY_DIR")
        => /\ ret.op = "get_docker_rg" => DockerHasVolume
           /\ ret.op = "get_k8s_rg" => (K8sHasEmptyDirVolume <=> NodePortAccepted)
           /\ ret.op = "get_k8s_rg" => (IsNone(ret.val) <=> ~NodePortAccepted)

\* C10: a NODE_PORT build with a stray volume_host_path still carries the EMPTY_DIR volume
C10_Witness ==
    /\ args.create_volume /\ args.volume_type = "EMPTY_DIR"
    /\ args.service_type = Some("NODE_PORT")
    /\ ~IsNone(args.volume_host_path)
    /\ K8sHasEmptyDirVolume

(***************************************************************************)
(* C11: Redis.args is immutable after validation: no call or sequence of   *)
(* calls to the builders, the init_* methods or the connection-URL getters *)
(* changes any field of it; node_port and pod_node_selector keep their     *)
(* constructed values.                                                     *)
(***************************************************************************)
C11_ArgsNeverChange == args = constructed_args

(***************************************************************************)
(* C12: when get_k8s_rg derives the topology node selectors of an AWS_EBS  *)
(* volume, a key already present in the caller's pod_node_selector keeps   *)
(* the caller's value; derived values only fill absent keys.               *)
(***************************************************************************)
\* the build derives topology selectors: an EBS volume that resolves, with scheduling in its topology
DerivesTopology ==
    /\ constructed_args.create_volume
    /\ constructed_args.volume_type = "AWS_EBS"
    /\ ~IsNone(constructed_args.ebs_volume_id) \/ ~IsNone(constructed_args.ebs_volume)
    /\ constructed_args.schedule_pods_in_ebs_topology

CallerSelector ==
    IF IsNone(constructed_args.pod_node_selector) THEN EmptyDict ELSE Val(constructed_args.pod_node_selector)

\* C12: every key of the caller's selector keeps its value on the Deployment
C12_CallerSelectorKeysKept ==
    (Returned("get_k8s_rg") /\ DerivesTopology)
        => LET selector == Val(Val(ret.val).deployments[1].pod_node_selector)
           IN  \A k \in DOMAIN CallerSelector : k \in DOMAIN selector /\ selector[k] = CallerSelector[k]

(***************************************************************************)
(* C13: with create_volume set and volume_type AWS_EBS, get_k8s_rg returns *)
(* no group when neither ebs_volume_id nor ebs_volume is given; a given    *)
(* ebs_volume_id is the volume id, with no lookup; get_volume_id is called *)
(* at most once per build, and only when ebs_volume_id is absent and       *)
(* ebs_volume is present.                                                  *)
(***************************************************************************)
EbsRequested == constructed_args.create_volume /\ constructed_args.volume_type = "AWS_EBS"

K8sBuildOps == {"get_k8s_rg", "init_k8s_resource_groups"}

\* C13: which EBS builds abort, which id the volume carries, and when the lookup is made
C13_EbsVolumeIdAndLookup ==
    /\ (ret.op = "get_k8s_rg" /\ EbsRequested
            /\ IsNone(constructed_args.ebs_volume_id) /\ IsNone(constructed_args.ebs_volume))
          => IsNone(ret.val) /\ ret.lookups = 0
    /\ (ret.op \in K8sBuildOps /\ EbsRequested /\ ~IsNone(constructed_args.ebs_volume_id))
          => ret.lookups = 0
    /\ (Returned("get_k8s_rg") /\ EbsRequested /\ ~IsNone(constructed_args.ebs_volume_id))
          => /\ Len(Val(ret.val).deployments[1].volumes) = 1
             /\ Val(ret.val).deployments[1].volumes[1].volume_type = "AWS_EBS"
             /\ Val(ret.val).deployments[1].volumes[1].source = constructed_args.ebs_volume_id
    /\ ret.op \in K8sBuildOps
          => /\ ret.lookups \in {0, 1}
             /\ ret.lookups = 1 <=> ( /\ EbsRequested
                                      /\ IsNone(constructed_args.ebs_volume_id)
                                      /\ ~IsNone(constructed_args.ebs_volume) )
    /\ ret.op \notin K8sBuildOps => ret.lookups = 0

\* C13: both an id and a reference object are given; the volume carries the given id, no lookup is made
C13_Witness ==
    /\ Returned("get_k8s_rg")
    /\ EbsRequested
    /\ constructed_args.ebs_volume_id = Some(<<"vol-1">>)
    /\ ~IsNone(constructed_args.ebs_volume)
    /\ Val(constructed_args.ebs_volume).volume_id = Some(<<"vol-2">>)
    /\ Val(ret.val).deployments[1].volumes[1].source = Some(<<"vol-1">>)
    /\ ret.lookups = 0

(***************************************************************************)
(* C14: a volume type the backend does not handle aborts the build with no *)
(* partial output: with create_volume set, get_docker_rg returns nothing   *)
(* for PERSISTENT_VOLUME and AWS_EBS, and get_k8s_rg returns nothing for   *)
(* PERSISTENT_VOLUME.                                                      *)
(***************************************************************************)
DockerUnsupportedVolume ==
    constructed_args.create_volume /\ constructed_args.volume_type \in {"PERSISTENT_VOLUME", "AWS_EBS"}

K8sUnsupportedVolume ==
    constructed_args.create_volume /\ constructed_args.volume_type = "PERSISTENT_VOLUME"

\* C14: the build returns nothing, reports the type, and nothing is registered
C14_UnsupportedVolumeAborts ==
    /\ DockerUnsupportedVolume
          => /\ ret.op = "get_docker_rg" => IsNone(ret.val)
             /\ ret.op \in {"get_docker_rg", "init_docker_resource_groups"}
                   => ret.log = <<"volume_type not supported">>
             /\ IsNone(docker_resource_groups)
    /\ K8sUnsupportedVolume
          => /\ ret.op = "get_k8s_rg" => IsNone(ret.val)
             /\ ret.op \in K8sBuildOps => ret.log = <<"volume_type not supported">>
             /\ IsNone(k8s_resource_groups)

\* C14: get_docker_rg has returned nothing for an AWS_EBS volume that get_k8s_rg can build
C14_Witness ==
    /\ ret.op = "get_docker_rg"
    /\ IsNone(ret.val)
    /\ constructed_args.create_volume
    /\ constructed_args.volume_type = "AWS_EBS"
    /\ ~IsNone(constructed_args.ebs_volume_id)
    /\ ret.log = <<"volume_type not supported">>

(***************************************************************************)
(* C15: an env file or secrets file whose path is unset, does not exist or *)
(* is not a regular file yields no data and no error; a file that parses   *)
(* to something other than a mapping reports an error and contributes no   *)
(* data; in each of these cases the build goes on and returns a group.     *)
(***************************************************************************)
\* the path is unset, names nothing, or names something that is not a regular file
FileAbsent(path) == IsNone(path) \/ ~fs[Val(path)].exists \/ ~fs[Val(path)].is_file

\* the path names a regular file whose text does not parse to a mapping
FileNotMapping(path) == ~FileAbsent(path) /\ fs[Val(path)].yaml.kind # "map"

ErrorsOf(path, error) == IF FileNotMapping(path) THEN <<error>> ELSE <<>>

FileErrors ==
    ErrorsOf(constructed_args.env_file, "Invalid env_file") \o ErrorsOf(constructed_args.secrets_file, "Invalid secrets_file")

\* the errors printed about the files are those of the non-mappings, once each, first
LogReportsFileErrors ==
    /\ Len(ret.log) >= Len(FileErrors)
    /\ \A i \in 1..Len(FileErrors) : ret.log[i] = FileErrors[i]
    /\ \A i \in (Len(FileErrors) + 1)..Len(ret.log) : ret.log[i] \notin {"Invalid env_file", "Invalid secrets_file"}

\* the Docker volume branch does not abort the build
DockerVolumeResolves ==
    \/ ~constructed_args.create_volume
    \/ constructed_args.volume_type = "EMPTY_DIR"
    \/ constructed_args.volume_type = "HOST_PATH" /\ ~IsNone(constructed_args.volume_host_path)

\* C15: the files' errors are exactly those of the non-mappings, a file without a
\* mapping gives no key, and no state of the files keeps a build from returning
C15_FileProblemsDoNotStopTheBuild ==
    /\ ret.op = "get_docker_rg"
          => /\ IsNone(ret.val) <=> ~DockerVolumeResolves
             /\ LogReportsFileErrors
    /\ ret.op = "get_k8s_rg"
          => /\ IsNone(ret.val) <=> ~(VolumeResolves /\ NodePortAccepted)
             /\ LogReportsFileErrors
    /\ Returned("get_docker_rg")
          => LET env == Val(ret.val).containers[1].environment
             IN  /\ (FileAbsent(args.env_file) \/ FileNotMapping(args.env_file))
                      => DOMAIN env = (DOMAIN FileMapping(args.secrets_file)) \cup (DOMAIN InlineEnv)
                 /\ (FileAbsent(args.secrets_file) \/ FileNotMapping(args.secrets_file))
                      => DOMAIN env = (DOMAIN FileMapping(args.env_file)) \cup (DOMAIN InlineEnv)
    /\ Returned("get_k8s_rg")
          => /\ (FileAbsent(args.env_file) \/ FileNotMapping(args.env_file))
                   => Val(ret.val).config_maps[1].data = InlineEnv
             /\ (FileAbsent(args.secrets_file) \/ FileNotMapping(args.secrets_file))
                   => /\ Len(Val(ret.val).secrets) = 0
                      /\ IsNone(Val(ret.val).deployments[1].containers[1].envs_from_secret)

\* C15: env_file names a directory and secrets_file a file holding a scalar; the
\* group is returned with the inline env only, no Secret, and the one error
C15_Witness ==
    /\ Returned("get_k8s_rg")
    /\ ~IsNone(args.env_file) /\ fs[Val(args.env_file)] = Directory
    /\ ~IsNone(args.secrets_file) /\ fs[Val(args.secrets_file)] = RegularFile(YamlScalar)
    /\ ret.log = <<"Invalid secrets_file">>
    /\ Val(ret.val).config_maps[1].data = InlineEnv
    /\ DOMAIN InlineEnv # {}
    /\ Len(Val(ret.val).secrets) = 0

(***************************************************************************)
(* C16: every resource name (container, config map, secret, service,       *)
(* volume, deployment, pod) is the explicitly supplied name when one is    *)
(* set, and otherwise derived from the app name and the resource kind      *)
(* only; a name getter or a build called again on the same options yields  *)
(* the same names.                                                         *)
(***************************************************************************)
\* the name a resource must carry: the constructor's, when that is a non-empty
\* string, else "<prefix>-<app name>"
NameOf(explicit, prefix) ==
    IF ~IsNone(explicit) /\ Len(Val(explicit)) > 0 THEN Val(explicit) ELSE <<prefix, "-">> \o constructed_args.name

\* C16: the names on every group returned and in every URL, at every call
C16_NamesExplicitOrDerived ==
    /\ Returned("get_docker_rg")
          => /\ Val(ret.val).containers[1].name = NameOf(constructed_args.container_name, "container")
             /\ (constructed_args.create_volume /\ constructed_args.volume_type = "EMPTY_DIR")
                   => DOMAIN Val(ret.val).containers[1].volumes = {NameOf(constructed_args.volume_name, "volume")}
    /\ Returned("get_k8s_rg")
          => LET rg == Val(ret.val)
                 deployment == rg.deployments[1]
                 container == deployment.containers[1]
             IN  /\ rg.config_maps[1].cm_name = NameOf(constructed_args.config_map_name, "cm")
                 /\ container.envs_from_configmap = <<NameOf(constructed_args.config_map_name, "cm")>>
                 /\ \A i \in DOMAIN rg.secrets :
                        /\ rg.secrets[i].secret_name = NameOf(constructed_args.secret_name, "secret")
                        /\ container.envs_from_secret = Some(<<NameOf(constructed_args.secret_name, "secret")>>)
                 /\ \A i \in DOMAIN rg.services :
                        rg.services[i].service_name = NameOf(constructed_args.service_name, "svc")
                 /\ deployment.deploy_name = NameOf(constructed_args.deploy_name, "deploy")
                 /\ deployment.pod_name = NameOf(constructed_args.pod_name, "pod")
                 /\ container.container_name = NameOf(constructed_args.container_name, "container")
                 /\ \A i \in DOMAIN deployment.volumes :
                        deployment.volumes[i].volume_name = NameOf(constructed_args.volume_name, "volume")
    /\ get_container_name(args) = NameOf(constructed_args.container_name, "container")
    /\ get_service_name(args) = NameOf(constructed_args.service_name, "svc")

\* C16: a group whose secret, volume and pod names are the caller's and whose
\* config map, service and deployment names are derived from the app name "cache"
C16_Witness ==
    /\ Returned("get_k8s_rg")
    /\ constructed_args.name = <<"cache">>
    /\ Len(Val(ret.val).secrets) = 1 /\ Val(ret.val).secrets[1].secret_name = <<"sec1">>
    /\ Val(ret.val).deployments[1].volumes[1].volume_name = <<"vol1">>
    /\ Val(ret.val).deployments[1].pod_name = <<"pod1">>
    /\ Val(ret.val).deployments[1].containers[1].container_name = <<"c1">>
    /\ Val(ret.val).config_maps[1].cm_name = <<"cm", "-", "cache">>
    /\ Val(ret.val).services[1].service_name = <<"svc", "-", "cache">>
    /\ Val(ret.val).deployments[1].deploy_name = <<"deploy", "-", "cache">>

(***************************************************************************)
(* C17: building is deterministic and repeatable: for fixed file contents  *)
(* and lookup results, two successive calls of get_k8s_rg (or of           *)
(* get_docker_rg) on the same Redis instance return equal results, also    *)
(* after any interleaving with the other build and the URL getters.        *)
(***************************************************************************)
\* C17: in every state the instance can be in, whatever calls led to it, a build
\* returns what the same build returns on the instance as constructed (which needs
\* a look only where the calls have changed args), and the value the last build
\* returned is the value the same call returns again
C17_BuildsRepeatable ==
    /\ args # constructed_args
          => /\ \A ctx \in K8sBuildContexts :
                   get_k8s_rg(args, fs, ctx).val = get_k8s_rg(constructed_args, fs, ctx).val
             /\ \A ctx \in DockerBuildContexts :
                   get_docker_rg(args, fs, ctx).val = get_docker_rg(constructed_args, fs, ctx).val
    /\ ret.op = "get_k8s_rg" => \E ctx \in K8sBuildContexts : ret.val = get_k8s_rg(args, fs, ctx).val
    /\ ret.op = "get_docker_rg" => \E ctx \in DockerBuildContexts : ret.val = get_docker_rg(args, fs, ctx).val

\* C17: a repeated get_k8s_rg on an instance whose node_port an earlier call reset
\* (the repeat prints no warning) returns the group of the first call
C17_Witness ==
    /\ Returned("get_k8s_rg")
    /\ ~IsNone(constructed_args.node_port)
    /\ IsNone(args.node_port)
    /\ ret.log = <<>>
    /\ ~IsNone(docker_resource_groups)
    /\ \E ctx \in K8sBuildContexts : ret.val = get_k8s_rg(constructed_args, fs, ctx).val

(***************************************************************************)
(* C18: after any sequence of init_docker_resource_groups and              *)
(* init_k8s_resource_groups calls, each registry holds only fully built    *)
(* groups keyed by the group name, with at most one entry per app name; a  *)
(* build that fails leaves the registry as it was, never a partial or null *)
(* entry.                                                                  *)
(***************************************************************************)
\* a registry is unset, or holds under the app name one group that the builder returns
RegistryHoldsBuiltGroups(registry, built) ==
    \/ IsNone(registry)
    \/ /\ DOMAIN Val(registry) = {constructed_args.name}
       /\ Val(registry)[constructed_args.name].name = constructed_args.name
       /\ Some(Val(registry)[constructed_args.name]) \in built

\* C18: what the registries hold, and that a registry is set only for an app whose build does not fail
C18_RegistriesHoldBuiltGroups ==
    /\ RegistryHoldsBuiltGroups(docker_resource_groups,
                                {get_docker_rg(constructed_args, fs, ctx).val : ctx \in DockerBuildContexts})
    /\ RegistryHoldsBuiltGroups(k8s_resource_groups,
                                {get_k8s_rg(constructed_args, fs, ctx).val : ctx \in K8sBuildContexts})
    /\ ~IsNone(docker_resource_groups) => \A ctx \in DockerBuildContexts : ~IsNone(get_docker_rg(args, fs, ctx).val)
    /\ ~IsNone(k8s_resource_groups) => \A ctx \in K8sBuildContexts : ~IsNone(get_k8s_rg(args, fs, ctx).val)

\* C18: the k8s registry holds the app's one group, rebuilt for a second context,
\* while the Docker build of the same app fails and has registered nothing
C18_Witness ==
    /\ ret.op = "init_docker_resource_groups"
    /\ IsNone(docker_resource_groups)
    /\ ~IsNone(k8s_resource_groups)
    /\ DOMAIN Val(k8s_resource_groups) = {constructed_args.name}
    /\ Val(k8s_resource_groups)[constructed_args.name].deployments[1].namespace = <<"prd">>
    /\ constructed_args.volume_type = "AWS_EBS"

(***************************************************************************)
(* C19: every group returned by get_k8s_rg contains exactly one            *)
(* Deployment, at most one ConfigMap, at most one Secret and at most one   *)
(* Service.                                                                *)
(***************************************************************************)
C19_GroupCardinalities ==
    Returned("get_k8s_rg")
        => /\ Len(Val(ret.val).deployments) = 1
           /\ Len(Val(ret.val).config_maps) <= 1
           /\ Len(Val(ret.val).secrets) <= 1
           /\ Len(Val(ret.val).services) <= 1
           /\ Len(Val(ret.val).deployments[1].containers) = 1

\* C19: a group with one resource of each kind, the Service pointing at the Deployment, is returned
C19_Witness ==
    /\ Returned("get_k8s_rg")
    /\ Len(Val(ret.val).deployments) = 1
    /\ Len(Val(ret.val).config_maps) = 1
    /\ Len(Val(ret.val).secrets) = 1
    /\ Len(Val(ret.val).services) = 1
    /\ Val(ret.val).services[1].deployment = Val(ret.val).deployments[1]

(***************************************************************************)
(* C20: a node port is attached to the Service port only when the service  *)
(* type permits it.  For LOAD_BALANCER a null node_port is accepted and a  *)
(* non-null one must lie in [30000, 32767], else the Service is not        *)
(* produced.  For any other service type (null or cluster-internal) a      *)
(* supplied node_port is ignored: it never appears on the port and the     *)
(* build still succeeds.                                                   *)
(***************************************************************************)
\* the node ports on the ports of the returned group: the Service's and the container's
PortNodePorts ==
    {Val(ret.val).services[i].ports[1].node_port : i \in DOMAIN Val(ret.val).services}
    \cup {Val(ret.val).deployments[1].containers[1].ports[1].node_port}

ServiceTypeOther == constructed_args.service_type \in {None, Some("CLUSTER_IP")}

\* C20: per service type, whether the Service is produced and what its port carries;
\* the node-port check is the only thing that decides once the volume branch is passed
C20_NodePortOnlyWherePermitted ==
    ret.op = "get_k8s_rg"
        => /\ (~IsNone(ret.val) /\ PortNodePorts # {None})
                 => constructed_args.service_type \in {Some("NODE_PORT"), Some("LOAD_BALANCER")}
           /\ constructed_args.service_type = Some("LOAD_BALANCER")
                 => /\ HasService <=> ( /\ IsNone(constructed_args.node_port) \/ NodePortInRange(constructed_args.node_port)
                                        /\ VolumeResolves )
                    /\ HasService => PortNodePorts = {constructed_args.node_port}
           /\ ServiceTypeOther
                 => /\ HasService <=> VolumeResolves
                    /\ HasService => /\ PortNodePorts = {None}
                                     /\ Val(ret.val).services[1].service_type = constructed_args.service_type

\* C20: CLUSTER_IP with node_port 29999: the group is returned and no port carries the node port
C20_Witness ==
    /\ HasService
    /\ constructed_args.service_type = Some("CLUSTER_IP")
    /\ constructed_args.node_port = Some(MinNodePort - 1)
    /\ PortNodePorts = {None}
    /\ Val(ret.val).services[1].ports[1].node_port = None

(***************************************************************************)
(* C21: every group returned by get_docker_rg is named after the app,      *)
(* carries the enabled flag of the options, and contains exactly one       *)
(* network (the build context's) and exactly one container, whose port     *)
(* bindings are the single entry {container_port: container_host_port} and *)
(* whose volume bindings each have mode rw and bind target                 *)
(* volume_container_path.                                                  *)
(***************************************************************************)
C21_DockerGroupShape ==
    Returned("get_docker_rg")
        => LET rg == Val(ret.val)
               container == rg.containers[1]
           IN  /\ rg.name = constructed_args.name
               /\ rg.enabled = constructed_args.enabled
               /\ rg.network.name \in {ctx.network : ctx \in DockerBuildContexts}
               /\ Len(rg.containers) = 1
               /\ container.network = rg.network.name
               /\ DOMAIN container.ports = {IntToStr(constructed_args.container_port)}
               /\ container.ports[IntToStr(constructed_args.container_port)] = constructed_args.container_host_port
               /\ Cardinality(DOMAIN container.volumes) <= 1
               /\ Cardinality(DOMAIN container.volumes) = 1 <=> constructed_args.create_volume
               /\ \A v \in DOMAIN container.volumes :
                      /\ container.volumes[v].mode = "rw"
                      /\ container.volumes[v].bind = constructed_args.volume_container_path

\* C21: a disabled app with ports 6380 -> 16380 and a host-path volume mounted at /var/redis
C21_Witness ==
    /\ Returned("get_docker_rg")
    /\ ~Val(ret.val).enabled
    /\ Val(ret.val).network.name = <<"bridge">>
    /\ Val(ret.val).containers[1].ports = DictSet(EmptyDict, <<"6", "3", "8", "0">>, 16380)
    /\ DOMAIN Val(ret.val).containers[1].volumes = {<<"/", "mnt", "/", "redis">>}
    /\ Val(ret.val).containers[1].volumes[<<"/", "mnt", "/", "redis">>].bind = <<"/", "var", "/", "redis">>

(***************************************************************************)
(* C24: get_k8s_rg derives topology node selectors only when create_volume *)
(* is set, volume_type is AWS_EBS, the volume resolved and                 *)
(* schedule_pods_in_ebs_topology is true: the region key is set from       *)
(* ebs_volume_region when non-null, the zone key from ebs_volume_az or     *)
(* else from ebs_volume.availability_zone when non-null; in every other    *)
(* case the Deployment's node selector is the caller's pod_node_selector.  *)
(***************************************************************************)
\* the zone the derivation uses: ebs_volume_az, else that of the EbsVolume object
DerivedZone ==
    IF ~IsNone(constructed_args.ebs_volume_az) THEN constructed_args.ebs_volume_az
    ELSE IF ~IsNone(constructed_args.ebs_volume) THEN Val(constructed_args.ebs_volume).availability_zone
    ELSE None

\* C24: the selector of the Deployment, key by key, with and without derivation
C24_TopologySelectors ==
    Returned("get_k8s_rg")
        => LET result == Val(ret.val).deployments[1].pod_node_selector
           IN  IF DerivesTopology
               THEN /\ ~IsNone(result)
                    /\ DOMAIN Val(result) = (DOMAIN CallerSelector)
                                             \cup (IF IsNone(constructed_args.ebs_volume_region) THEN {} ELSE {TopologyRegionKey})
                                             \cup (IF IsNone(DerivedZone) THEN {} ELSE {TopologyZoneKey})
                    /\ ~IsNone(constructed_args.ebs_volume_region)
                          => Val(result)[TopologyRegionKey] = Val(constructed_args.ebs_volume_region)
                    /\ ~IsNone(DerivedZone) => Val(result)[TopologyZoneKey] = Val(DerivedZone)
                    /\ \A k \in DOMAIN CallerSelector :
                          ( /\ k = TopologyRegionKey => IsNone(constructed_args.ebs_volume_region)
                            /\ k = TopologyZoneKey => IsNone(DerivedZone) )
                          => Val(result)[k] = CallerSelector[k]
               ELSE result = constructed_args.pod_node_selector

\* C24: no ebs_volume_az is given, so the zone key comes from the EbsVolume object; there is no region
C24_Witness ==
    /\ Returned("get_k8s_rg")
    /\ DerivesTopology
    /\ IsNone(constructed_args.ebs_volume_az)
    /\ IsNone(constructed_args.ebs_volume_region)
    /\ IsNone(constructed_args.pod_node_selector)
    /\ Val(ret.val).deployments[1].pod_node_selector = Some(DictSet(EmptyDict, TopologyZoneKey, <<"az-b">>))

(***************************************************************************)
(* C25: in get_k8s_rg the ConfigMap data is exactly the env-file data      *)
(* overlaid by the inline env (inline wins on shared keys); a key/value    *)
(* that comes only from the secrets file never appears in the ConfigMap;   *)
(* secrets-file data is carried only by the Secret.                        *)
(***************************************************************************)
C25_ConfigMapHasNoSecrets ==
    Returned("get_k8s_rg")
        => LET data == Val(ret.val).config_maps[1].data
               ef == FileMapping(constructed_args.env_file)
               sf == FileMapping(constructed_args.secrets_file)
           IN  /\ DOMAIN data = (DOMAIN ef) \cup (DOMAIN InlineEnv)
               /\ \A k \in DOMAIN data : data[k] = IF k \in DOMAIN InlineEnv THEN InlineEnv[k] ELSE ef[k]
               /\ \A k \in DOMAIN sf : k \notin (DOMAIN ef) \cup (DOMAIN InlineEnv) => k \notin DOMAIN data
               /\ \A i \in DOMAIN Val(ret.val).secrets : Val(ret.val).secrets[i].string_data = sf
               /\ DOMAIN sf # {} => Len(Val(ret.val).secrets) = 1

\* C25: key A is in all three sources and key B in both files; the ConfigMap has the
\* inline A and the env file's B, the Secret has the secrets file's A and B
C25_Witness ==
    /\ Returned("get_k8s_rg")
    /\ {"A", "B"} \subseteq DOMAIN FileMapping(args.env_file)
    /\ {"A", "B"} \subseteq DOMAIN FileMapping(args.secrets_file)
    /\ "A" \in DOMAIN InlineEnv /\ "B" \notin DOMAIN InlineEnv
    /\ Val(ret.val).config_maps[1].data = [A |-> <<"i">>, B |-> <<"e">>]
    /\ Val(ret.val).secrets[1].string_data = [A |-> <<"s">>, B |-> <<"s">>]

(***************************************************************************)
(* CreatePersistentVolume                                                  *)
(* (src/phidata/infra/k8s/create/core/v1/persistent_volume.py): create_pv  *)
(* is the CreatePersistentVolume object and ret the last create() call.    *)
(***************************************************************************)
\* the members of VolumeType that the sources name
VolumeType == {"LOCAL", "HOST_PATH", "GCE_PERSISTENT_DISK", "EMPTY_DIR", "AWS_EBS"}

\* create_component_labels_dict: the labels of a component of an app
create_component_labels_dict(component_name, app_name, labels) ==
    [component_name |-> component_name, app_name |-> app_name, labels |-> labels]

\* print_error of a volume type selected without its source
SourceNotProvided(volume_type, source_class) ==
    <<"PersistentVolume ", volume_type, " selected but ", source_class, " not provided.">>

\* the PersistentVolume before its volume source is set
PersistentVolume(self) ==
    [ name |-> self.pv_name,
      api_version |-> "CORE_V1",
      kind |-> "PERSISTENTVOLUME",
      metadata |-> [ name |-> self.pv_name,
                     namespace |-> self.namespace,
                     labels |-> create_component_labels_dict(self.pv_name, self.app_name, self.labels) ],
      spec |-> [ access_modes |-> self.access_modes,
                 capacity |-> self.capacity,
                 mount_options |-> self.mount_options,
                 node_affinity |-> self.node_affinity,
                 persistent_volume_reclaim_policy |-> self.persistent_volume_reclaim_policy,
                 storage_class_name |-> self.storage_class_name,
                 volume_mode |-> self.volume_mode,
                 local |-> None,
                 host_path |-> None,
                 gce_persistent_disk |-> None ] ]

\* faulty variant: create() copies every source the caller supplied
CreatePersistentVolume_create_EverySourceCopied(self) ==
    LET persistent_volume == PersistentVolume(self)
        missing ==
            IF self.volume_type = "LOCAL" /\ IsNone(self.local)
            THEN <<SourceNotProvided(self.volume_type, "LocalVolumeSource")>>
            ELSE IF self.volume_type = "HOST_PATH" /\ IsNone(self.host_path)
            THEN <<SourceNotProvided(self.volume_type, "HostPathVolumeSource")>>
            ELSE IF self.volume_type = "GCE_PERSISTENT_DISK" /\ IsNone(self.gce_persistent_disk)
            THEN <<SourceNotProvided(self.volume_type, "GcePersistentDiskVolumeSource")>>
            ELSE <<>>
    IN  [ val |-> Some([persistent_volume EXCEPT !.spec.local = self.local,
                                                !.spec.host_path = self.host_path,
                                                !.spec.gce_persistent_disk = self.gce_persistent_disk]),
          log |-> missing ]

\* CreatePersistentVolume.create: the resource and what print_error printed
CreatePersistentVolume_create(self) ==
    LET persistent_volume == PersistentVolume(self)
    IN  IF self.volume_type = "LOCAL"
        THEN IF ~IsNone(self.local)
             THEN [ val |-> Some([persistent_volume EXCEPT !.spec.local = self.local]), log |-> <<>> ]
             ELSE [ val |-> Some(persistent_volume),
                    log |-> <<SourceNotProvided(self.volume_type, "LocalVolumeSource")>> ]
        ELSE IF self.volume_type = "HOST_PATH"
        THEN IF ~IsNone(self.host_path)
             THEN [ val |-> Some([persistent_volume EXCEPT !.spec.host_path = self.host_path]), log |-> <<>> ]
             ELSE [ val |-> Some(persistent_volume),
                    log |-> <<SourceNotProvided(self.volume_type, "HostPathVolumeSource")>> ]
        ELSE IF self.volume_type = "GCE_PERSISTENT_DISK"
        THEN IF ~IsNone(self.gce_persistent_disk)
             THEN [ val |-> Some([persistent_volume EXCEPT
                                      !.spec.gce_persistent_disk = self.gce_persistent_disk]),
                    log |-> <<>> ]
             ELSE [ val |-> Some(persistent_volume),
                    log |-> <<SourceNotProvided(self.volume_type, "GcePersistentDiskVolumeSource")>> ]
        ELSE [ val |-> Some(persistent_volume), log |-> <<>> ]

\* the CreatePersistentVolume objects the behaviours start from
PvConfigs ==
    { [ pv_name |-> pv_name,
        app_name |-> <<"redis">>,
        namespace |-> namespace,
        labels |-> None,
        access_modes |-> <<"READ_WRITE_ONCE">>,
        capacity |-> None,
        mount_options |-> None,
        node_affinity |-> None,
        persistent_volume_reclaim_policy |-> None,
        storage_class_name |-> None,
        volume_mode |-> None,
        volume_type |-> volume_type,
        local |-> local,
        host_path |-> host_path,
        gce_persistent_disk |-> gce_persistent_disk ] :
        pv_name \in {<<"redis", "-pv">>, <<"pg", "-pv">>},
        namespace \in {None, Some(<<"default">>)},
        volume_type \in VolumeType,
        local \in {None, Some([path |-> <<"mnt", "disks", "ssd1">>])},
        host_path \in {None, Some([path |-> <<"mnt", "redis">>])},
        gce_persistent_disk \in {None, Some([pd_name |-> <<"redis", "-disk">>])} }

PvInit ==
    /\ create_pv \in PvConfigs
    /\ ret = Return("none", None, <<>>, 0)
    /\ args = None /\ fs = EmptyDict /\ constructed_args = None
    /\ docker_resource_groups = None /\ k8s_resource_groups = None
    /\ file = None /\ disk = EmptyDict
    /\ kwargs = None /\ exc = None /\ before = None

Create ==
    \E r \in {CreatePersistentVolume_create(create_pv)} :
        /\ ret' = Return("create", r.val, r.log, 0)
        /\ UNCHANGED <<args, fs, docker_resource_groups, k8s_resource_groups, constructed_args,
                       create_pv, file, disk, kwargs, exc, before>>

PvNext == Create

PvSpec == PvInit /\ [][PvNext]_vars

\* the volume sources set on the spec of the returned PersistentVolume
SourcesSet ==
    { s \in {"local", "host_path", "gce_persistent_disk"} :
        ~IsNone(Val(ret.val).spec[s]) }

\* the source field that a volume type selects
SourceOf(volume_type) ==
    IF volume_type = "LOCAL" THEN "local"
    ELSE IF volume_type = "HOST_PATH" THEN "host_path"
    ELSE "gce_persistent_disk"

\* C22: create() omits the resource (returns None) when LOCAL, HOST_PATH or
\* GCE_PERSISTENT_DISK is selected and the matching source is not provided;
\* it never returns a PersistentVolume without a volume source.
C22_NoVolumeWithoutSource ==
    ret.op = "create" =>
        /\ ( /\ create_pv.volume_type \in {"LOCAL", "HOST_PATH", "GCE_PERSISTENT_DISK"}
             /\ IsNone(create_pv[SourceOf(create_pv.volume_type)]) )
           => IsNone(ret.val)
        /\ ~IsNone(ret.val) => SourcesSet # {}

\* C26: the returned PersistentVolume has at most one of spec.local,
\* spec.host_path and spec.gce_persistent_disk set, and the one set is the
\* caller's source for volume_type, also when several sources were supplied.
C26_AtMostTheSelectedSource ==
    (ret.op = "create" /\ ~IsNone(ret.val)) =>
        /\ Cardinality(SourcesSet) <= 1
        /\ \A s \in SourcesSet :
              /\ create_pv.volume_type \in {"LOCAL", "HOST_PATH", "GCE_PERSISTENT_DISK"}
              /\ s = SourceOf(create_pv.volume_type)
              /\ Val(ret.val).spec[s] = create_pv[s]

\* C26 witness: all three sources supplied, HOST_PATH selected, and only
\* spec.host_path is set on the result.
C26_Witness ==
    /\ ret.op = "create"
    /\ ~IsNone(ret.val)
    /\ create_pv.volume_type = "HOST_PATH"
    /\ ~IsNone(create_pv.local)
    /\ ~IsNone(create_pv.host_path)
    /\ ~IsNone(create_pv.gce_persistent_disk)
    /\ SourcesSet = {"host_path"}

(***************************************************************************)
(* File (src/phidata/asset/file/file.py).  file is the File instance: its  *)
(* FileArgs and the base directory its DataAsset part loaded from the      *)
(* environment.  A Path is a sequence of parts, each part a str; disk maps *)
(* the paths that exist to their contents.  kwargs holds the arguments of  *)
(* the last call, before the instance and the disk as that call found     *)
(* them, and constructed_args the FileArgs that __init__ built.            *)
(***************************************************************************)
FileType == {"CSV", "TSV", "TXT", "JSON"}

\* Path(".").resolve(): the working directory
Cwd == << <<"cwd">> >>

\* Path.joinpath with a relative Path
joinpath(path, other) == path \o other

\* str.upper(), token by token
UpperToken(t) ==
    CASE t = "csv" -> "CSV"
      [] t = "tsv" -> "TSV"
      [] t = "txt" -> "TXT"
      [] t = "json" -> "JSON"
      [] t = "Json" -> "JSON"
      [] t = "data" -> "DATA"
      [] t = "notes" -> "NOTES"
      [] t = "gz" -> "GZ"
      [] OTHER -> t

upper(s) == [i \in 1..Len(s) |-> UpperToken(s[i])]

\* Path.suffix: the last part from its last dot on, "" when that dot is
\* missing, leading or trailing
suffix(path) ==
    LET name == path[Len(path)]
        dots == {i \in 1..Len(name) : name[i] = "."}
        i == IF dots = {} THEN 0 ELSE CHOOSE d \in dots : \A e \in dots : e <= d
    IN  IF 1 < i /\ i < Len(name) THEN SubSeq(name, i, Len(name)) ELSE <<>>

\* DataAsset.name
DataAsset_name(self) == Val(self.args).name

\* DataAsset.base_dir_path
DataAsset_base_dir_path(self) == self.base_dir_path

\* self.args.<field> = value
SetArg(self, field, value) == [self EXCEPT !.args = Some([Val(self.args) EXCEPT ![field] = value])]

\* the file_dir setter
File_set_file_dir(self, file_dir) ==
    IF ~IsNone(file_dir) THEN SetArg(self, "file_dir", file_dir) ELSE self

\* the file_type setter
File_set_file_type(self, file_type) ==
    IF ~IsNone(file_type) THEN SetArg(self, "file_type", file_type) ELSE self

\* the file_path property: its value and the instance after the read
File_file_path(self) ==
    IF ~IsNone(Val(self.args).file_path)
    THEN [val |-> Val(self.args).file_path, self |-> self]
    ELSE LET base == DataAsset_base_dir_path(self)
             file_dir == Val(self.args).file_dir
             with_dir ==
                 IF ~IsNone(file_dir)
                 THEN IF IsNone(base)
                      THEN Some(joinpath(Cwd, Val(file_dir)))
                      ELSE Some(joinpath(Val(base), Val(file_dir)))
                 ELSE base
             name == DataAsset_name(self)
             _file_path ==
                 IF ~IsNone(name)
                 THEN IF IsNone(with_dir)
                      THEN Some(joinpath(Cwd, <<Val(name)>>))
                      ELSE Some(joinpath(Val(with_dir), <<Val(name)>>))
                 ELSE with_dir
         IN  [val |-> _file_path, self |-> SetArg(self, "file_path", _file_path)]

\* the file_type property: its value and the instance after the read
File_file_type(self) ==
    IF ~IsNone(Val(self.args).file_type)
    THEN [val |-> Val(self.args).file_type, self |-> self]
    ELSE LET fp == File_file_path(self)
         IN  IF IsNone(fp.val)
             THEN [val |-> None, self |-> fp.self]
             ELSE LET sfx == suffix(Val(fp.val))
                      ext == SubSeq(sfx, 2, Len(sfx))
                  IN  IF Len(ext) = 1 /\ upper(ext)[1] \in FileType
                      THEN [val |-> Some(upper(ext)[1]),
                            self |-> SetArg(fp.self, "file_type", Some(upper(ext)[1]))]
                      ELSE [val |-> None, self |-> fp.self]

\* delete_from_fs: the path no longer exists
delete_from_fs(d, path) == [p \in (DOMAIN d) \ {path} |-> d[p]]

\* DataFrame.to_json and DataFrame.to_csv: the text written
to_json(df) == <<"json">> \o df.data

to_csv(df) == <<"csv">> \o df.data

\* str() of what the file_type property returned
FileTypeStr(file_type) == IF IsNone(file_type) THEN "None" ELSE Val(file_type)

\* write_pandas_df: the value returned, the errors logged, the instance and
\* the disk after the call
File_write_pandas_df(self, d, df) ==
    IF IsNone(self.args)
    THEN [val |-> FALSE, log |-> <<>>, self |-> self, disk |-> d]
    ELSE LET fp == File_file_path(self)
         IN  IF IsNone(fp.val)
             THEN [val |-> FALSE, log |-> << <<"FilePath invalid">> >>, self |-> fp.self, disk |-> d]
             ELSE IF df.type # "DataFrame"
             THEN [val |-> FALSE, log |-> << <<"DataFrame invalid">> >>, self |-> fp.self, disk |-> d]
             ELSE LET file_path == Val(fp.val)
                      deleted == IF file_path \in DOMAIN d THEN delete_from_fs(d, file_path) ELSE d
                      touched == IF file_path \notin DOMAIN deleted
                                 THEN DictSet(deleted, file_path, <<>>)
                                 ELSE deleted
                      opened == DictSet(touched, file_path, <<>>)
                      ft == File_file_type(fp.self)
                  IN  IF ft.val = Some("JSON")
                      THEN [val |-> TRUE, log |-> <<>>, self |-> ft.self,
                            disk |-> DictSet(opened, file_path, to_json(df))]
                      ELSE IF ft.val = Some("JSON")
                      THEN [val |-> TRUE, log |-> <<>>, self |-> ft.self,
                            disk |-> DictSet(opened, file_path, to_csv(df))]
                      ELSE [val |-> FALSE,
                            log |-> << <<"FileType: ", FileTypeStr(ft.val), " not yet supported">> >>,
                            self |-> ft.self, disk |-> opened]

\* the names, directories and data frames of the calls
FileNames ==
    { None, Some(<<"data", ".", "csv">>), Some(<<"data", ".", "Json">>), Some(<<"data", ".", "tsv">>),
      Some(<<"notes", ".", "txt">>), Some(<<"data">>), Some(<<"data", ".", "tar", ".", "gz">>) }

FileDirs == { None, Some(<< <<"raw">> >>), Some(<< <<"tmp">> >>) }

BaseDirs == { None, Some(<< <<"base">> >>) }

DataFrames ==
    { [type |-> "NoneType", data |-> <<>>],
      [type |-> "dict", data |-> <<"a", "1">>],
      [type |-> "DataFrame", data |-> <<"a", "1">>] }

\* FileArgs as File.__init__ builds them
FileArgs(name, file_dir, file_type, file_path) ==
    [name |-> name, file_dir |-> file_dir, file_type |-> file_type, file_path |-> file_path]

\* the File instances the behaviours start from
FileAssets ==
    { [args |-> Some(FileArgs(name, file_dir, file_type, None)), base_dir_path |-> base] :
        name \in FileNames, file_dir \in {None, Some(<< <<"raw">> >>)},
        file_type \in {None, Some("CSV"), Some("JSON")}, base \in BaseDirs }
    \cup
    { [args |-> Some(FileArgs(name, None, file_type, Some(<< <<"abs">>, <<"out", ".", "json">> >>))),
       base_dir_path |-> None] :
        name \in {None, Some(<<"data", ".", "csv">>)}, file_type \in {None, Some("TXT")} }

\* every path a File of FileAssets can name
FilePaths ==
    { Val(path) :
        path \in { File_file_path(File_set_file_dir(f, file_dir)).val :
                       f \in FileAssets, file_dir \in FileDirs } \ {None} }

OldContent == <<"old">>

FileInit ==
    /\ file \in FileAssets
    /\ constructed_args = Val(file.args)
    /\ disk \in {EmptyDict, [p \in FilePaths |-> OldContent]}
    /\ kwargs = None
    /\ ret = Return("none", None, <<>>, 0)
    /\ args = None /\ fs = EmptyDict
    /\ docker_resource_groups = None /\ k8s_resource_groups = None
    /\ create_pv = None /\ exc = None /\ before = None

SetFileDir ==
    \E file_dir \in FileDirs :
        /\ file' = File_set_file_dir(file, file_dir)
        /\ kwargs' = Some([file_dir |-> file_dir])
        /\ ret' = Return("file_dir.setter", None, <<>>, 0)
        /\ UNCHANGED <<args, fs, docker_resource_groups, k8s_resource_groups, constructed_args,
                       create_pv, disk, exc>>
        /\ before' = Some([file |-> file, disk |-> disk])

SetFileType ==
    \E file_type \in {None, Some("CSV"), Some("JSON")} :
        /\ file' = File_set_file_type(file, file_type)
        /\ kwargs' = Some([file_type |-> file_type])
        /\ ret' = Return("file_type.setter", None, <<>>, 0)
        /\ UNCHANGED <<args, fs, docker_resource_groups, k8s_resource_groups, constructed_args,
                       create_pv, disk, exc>>
        /\ before' = Some([file |-> file, disk |-> disk])

ReadFilePath ==
    \E r \in {File_file_path(file)} :
        /\ file' = r.self
        /\ kwargs' = None
        /\ ret' = Return("file_path", r.val, <<>>, 0)
        /\ UNCHANGED <<args, fs, docker_resource_groups, k8s_resource_groups, constructed_args,
                       create_pv, disk, exc>>
        /\ before' = Some([file |-> file, disk |-> disk])

ReadFileType ==
    \E r \in {File_file_type(file)} :
        /\ file' = r.self
        /\ kwargs' = None
        /\ ret' = Return("file_type", r.val, <<>>, 0)
        /\ UNCHANGED <<args, fs, docker_resource_groups, k8s_resource_groups, constructed_args,
                       create_pv, disk, exc>>
        /\ before' = Some([file |-> file, disk |-> disk])

WritePandasDf ==
    \E df \in DataFrames : \E r \in {File_write_pandas_df(file, disk, df)} :
        /\ file' = r.self
        /\ disk' = r.disk
        /\ kwargs' = Some([df |-> df])
        /\ ret' = Return("write_pandas_df", r.val, r.log, 0)
        /\ UNCHANGED <<args, fs, docker_resource_groups, k8s_resource_groups, constructed_args,
                       create_pv, exc>>
        /\ before' = Some([file |-> file, disk |-> disk])

FileNext ==
    \/ SetFileDir
    \/ SetFileType
    \/ ReadFilePath
    \/ ReadFileType
    \/ WritePandasDf

FileSpec == FileInit /\ [][FileNext]_vars

\* the path and the type in effect after a write_pandas_df call that got a
\* path and a DataFrame
WrittenPath == Val(Val(file.args).file_path)

TypeInEffect == Val(file.args).file_type

\* C27: write_pandas_df writes the frame and returns True for JSON and for
\* CSV files (type explicit or derived from the suffix of the path), and
\* returns False with an error for TSV, TXT or an underivable type.
C27_JsonAndCsvWritten ==
    ( /\ ret.op = "write_pandas_df"
      /\ Val(kwargs).df.type = "DataFrame"
      /\ ~IsNone(file.args)
      /\ ~IsNone(Val(file.args).file_path) ) =>
        /\ TypeInEffect = Some("JSON") =>
              ret.val = TRUE /\ disk[WrittenPath] = to_json(Val(kwargs).df)
        /\ TypeInEffect = Some("CSV") =>
              ret.val = TRUE /\ disk[WrittenPath] = to_csv(Val(kwargs).df)
        /\ TypeInEffect \notin {Some("JSON"), Some("CSV")} =>
              ret.val = FALSE /\ ret.log # <<>>

\* C28: whenever write_pandas_df returns False, the disk is as it was before
\* the call: a file at the path is neither deleted, truncated nor created.
C28_FailedWriteLeavesDisk ==
    (ret.op = "write_pandas_df" /\ ret.val = FALSE) => disk = Val(before).disk

\* base_dir (or the working directory) joined with the current file_dir and
\* name of the File
ExpectedFilePath ==
    LET a == Val(file.args)
        base == IF IsNone(file.base_dir_path) THEN Cwd ELSE Val(file.base_dir_path)
        dir == IF IsNone(a.file_dir) THEN <<>> ELSE Val(a.file_dir)
        name == IF IsNone(a.name) THEN <<>> ELSE <<Val(a.name)>>
    IN  IF IsNone(a.file_dir) /\ IsNone(a.name)
        THEN file.base_dir_path
        ELSE Some(base \o dir \o name)

\* the FileType that the suffix of a path names, whatever its case
SuffixType(path) ==
    LET sfx == suffix(Val(path))
        ext == SubSeq(sfx, 2, Len(sfx))
    IN  IF ~IsNone(path) /\ Len(ext) = 1 /\ upper(ext)[1] \in FileType
        THEN Some(upper(ext)[1])
        ELSE None

\* C29: for a File constructed without an explicit file_path, after any
\* sequence of setter calls and property reads, file_path is base_dir (or the
\* working directory) joined with the current file_dir and name, and a
\* derived file_type is the type that the suffix of that path names; a setter
\* called with None changes nothing.
C29_PathFollowsFileDir ==
    /\ (ret.op = "file_path" /\ IsNone(constructed_args.file_path)) =>
          ret.val = ExpectedFilePath
    /\ ( /\ ret.op = "file_type"
         /\ IsNone(constructed_args.file_path)
         /\ IsNone(Val(Val(before).file.args).file_type) ) =>
          ret.val = SuffixType(ExpectedFilePath)
    /\ (ret.op = "file_dir.setter" /\ IsNone(Val(kwargs).file_dir)) => file = Val(before).file
    /\ (ret.op = "file_type.setter" /\ IsNone(Val(kwargs).file_type)) => file = Val(before).file

(***************************************************************************)
(* Construction (Redis.__init__, redis.py 234-287; File.__init__, file.py  *)
(* 39-51).  kwargs is what the caller passed: the values, and the names of *)
(* the arguments whose value does not fit the declared type of its field.  *)
(* exc is the exception that reached the caller.  A method can be called   *)
(* only on an instance whose constructor returned.                         *)
(***************************************************************************)
\* the message of logger.error in the except branch of a constructor
ArgsNotValid(class_name) == <<"Args for ", class_name, " are not valid">>

\* building the args model raises when an argument does not fit its field
ValidationFails(kw) == kw.ill_typed # {}

\* faulty variant: the constructor logs the error and returns
Redis_init_ExceptionSwallowed(kw) ==
    IF ValidationFails(kw)
    THEN [args |-> None, log |-> <<ArgsNotValid("Redis")>>, exc |-> None]
    ELSE [args |-> Some(kw.args), log |-> <<>>, exc |-> None]

\* Redis.__init__: the args built, the error logged, the exception raised
Redis_init(kw) ==
    IF ValidationFails(kw)
    THEN [args |-> None, log |-> <<ArgsNotValid("Redis")>>, exc |-> Some("ValidationError")]
    ELSE [args |-> Some(kw.args), log |-> <<>>, exc |-> None]

\* File.__init__: the args built, the error logged, the exception raised
File_init(kw) ==
    IF ValidationFails(kw)
    THEN [args |-> None, log |-> <<ArgsNotValid("File")>>, exc |-> Some("ValidationError")]
    ELSE [args |-> Some(kw.args), log |-> <<>>, exc |-> None]

\* what callers pass to Redis(...)
RedisKwargs ==
    { [args |-> Config([DefaultArgs EXCEPT !.volume_type = vt, !.service_type = svc[1], !.node_port = svc[2]],
                       NoFile, NoFile).args,
       ill_typed |-> ill] :
        vt \in {"EMPTY_DIR", "HOST_PATH", "PERSISTENT_VOLUME"},
        svc \in { <<None, None>>, <<Some("NODE_PORT"), Some(MinNodePort - 1)>> },
        ill \in {{}, {"node_port"}, {"volume_type", "replicas"}} }

\* what callers pass to File(...)
FileKwargs ==
    { [args |-> FileArgs(name, file_dir, None, None), ill_typed |-> ill] :
        name \in {Some(<<"data", ".", "csv">>), Some(<<"data", ".", "Json">>)},
        file_dir \in {None, Some(<< <<"raw">> >>)},
        ill \in {{}, {"file_type"}, {"enabled"}} }

NewInit ==
    /\ args = None /\ constructed_args = None
    /\ fs = Config(DefaultArgs, NoFile, NoFile).fs
    /\ docker_resource_groups = None /\ k8s_resource_groups = None
    /\ ret = Return("none", None, <<>>, 0)
    /\ create_pv = None /\ file = None /\ disk = EmptyDict
    /\ kwargs = None /\ exc = None /\ before = None

RedisNew ==
    /\ ret.op = "none"
    /\ \E kw \in RedisKwargs : \E r \in {Redis_init(kw)} :
        /\ args' = IF IsNone(r.args) THEN args ELSE Val(r.args)
        /\ constructed_args' = IF IsNone(r.args) THEN constructed_args ELSE Val(r.args)
        /\ exc' = r.exc
        /\ kwargs' = Some(kw)
        /\ ret' = Return("Redis.__init__", None, r.log, 0)
        /\ UNCHANGED <<fs, docker_resource_groups, k8s_resource_groups, create_pv, file, disk, before>>

FileNew ==
    /\ ret.op = "none"
    /\ \E kw \in FileKwargs : \E base \in BaseDirs : \E r \in {File_init(kw)} :
        /\ file' = IF IsNone(r.args) THEN file ELSE [args |-> r.args, base_dir_path |-> base]
        /\ constructed_args' = IF IsNone(r.args) THEN constructed_args ELSE Val(r.args)
        /\ exc' = r.exc
        /\ kwargs' = Some(kw)
        /\ ret' = Return("File.__init__", None, r.log, 0)
        /\ UNCHANGED <<args, fs, docker_resource_groups, k8s_resource_groups, create_pv, disk, before>>

RedisOps ==
    { "Redis.__init__", "get_docker_rg", "init_docker_resource_groups", "get_k8s_rg",
      "init_k8s_resource_groups", "get_db_password", "get_db_schema", "get_db_connection_url_local",
      "get_db_connection_url_docker", "get_db_connection_url_k8s" }

FileOps == { "File.__init__", "file_dir.setter", "file_type.setter", "file_path", "file_type", "write_pandas_df" }

\* the constructor returned an instance
RedisConstructed == ret.op \in RedisOps /\ IsNone(exc)

FileConstructed == ret.op \in FileOps /\ IsNone(exc)

NewNext ==
    \/ RedisNew
    \/ FileNew
    \/ RedisConstructed /\ Next
    \/ FileConstructed /\ FileNext

NewSpec == NewInit /\ [][NewNext]_vars

Constructors == {"Redis.__init__", "File.__init__"}

ClassOf(op) == IF op = "Redis.__init__" THEN "Redis" ELSE "File"

====
